---- MODULE Spec2Model ----
(***************************************************************************)
(* Model of the content-intelligence pipeline of URLQuestioner:            *)
(*   server/services/openai.ts   chunking, model fallback, analysis, Q&A   *)
(*   server/storage.ts           in-memory session / transcript store      *)
(*   server/routes.ts            HTTP handlers                             *)
(*   server/services/pdf-processor.ts  extraction floor, temp-file cleanup *)
(*   server/services/mcq-generator.ts, be/server/services/mcq-generator.ts *)
(*                               multiple-choice question generation       *)
(*                                                                         *)
(* Strings are sequences of one-character strings; indices into them are   *)
(* the 0-based indices of the source.                                      *)
(***************************************************************************)
EXTENDS Integers, Sequences, FiniteSets, TLC

\* ------------------------------------------------------------------ bounds
\* number of HTTP requests the server receives
MaxRequests == 3
\* number of requests whose handlers are running at the same time
MaxInFlight == 2
\* number of times the clock advances
MaxTime == 1
\* longest text handed to splitContentIntoChunks
MaxLen == 7
\* largest maxChunkSize argument tried (the default 8000 is scaled down)
MaxSize == 5
\* cap on the number of chunks pushed, so that a loop that never exits still
\* yields a finite state space
MaxChunks == 4
\* number of MemStorage operations called one after another
MaxOps == 5
\* most chunks of a multi-chunk analysis
MaxParts == 3
\* largest numberOfQuestions asked of generateMCQs
MaxQuestions == 3
\* most elements of the JSON array a model returns to generateMCQs
MaxElements == 3
\* most chunks handed to findRelevantChunks
MaxChunkCount == 3
\* largest maxChunks argument of findRelevantChunks tried (the default is 3)
MaxTop == 3

\* ------------------------------------------------------- string primitives
Min(a, b) == IF a <= b THEN a ELSE b

Max(a, b) == IF a >= b THEN a ELSE b

SetMax(S) == CHOOSE x \in S : \A y \in S : y <= x

SetMin(S) == CHOOSE x \in S : \A y \in S : x <= y

\* the characters texts are built from: a letter, the sentence terminator and
\* the newline (whitespace; two in a row are a paragraph break)
Alphabet == {"a", ".", "\n"}

Whitespace == {" ", "\n"}

\* all strings over Alphabet of length at most n
StringsUpTo(n) == UNION {[1..k -> Alphabet] : k \in 0..n}

\* s.charAt(i), 0-based
CharAt(s, i) == s[i + 1]

\* does pat occur in s at 0-based index i
MatchesAt(s, pat, i) ==
    /\ i >= 0
    /\ i + Len(pat) <= Len(s)
    /\ \A k \in 1..Len(pat) : s[i + k] = pat[k]

\* String.prototype.lastIndexOf(pat, fromIndex): the largest index
\* <= fromIndex (clamped to 0..length) where pat occurs, or -1
lastIndexOf(s, pat, fromIndex) ==
    LET from == Min(Max(fromIndex, 0), Len(s))
        hits == {i \in 0..from : MatchesAt(s, pat, i)}
    IN  IF hits = {} THEN -1 ELSE SetMax(hits)

\* String.prototype.slice index normalisation: negative counts from the end
SliceIndex(s, i) == IF i < 0 THEN Max(Len(s) + i, 0) ELSE Min(i, Len(s))

\* the half-open 0-based index range <<lo, hi>> that s.slice(a, b) denotes
SliceSpan(s, a, b) ==
    LET lo == SliceIndex(s, a)
        hi == SliceIndex(s, b)
    IN  IF lo >= hi THEN <<lo, lo>> ELSE <<lo, hi>>

\* the sub-range of <<lo, hi>> left after String.prototype.trim()
TrimSpan(s, span) ==
    LET keep == {i \in span[1]..(span[2] - 1) : CharAt(s, i) \notin Whitespace}
    IN  IF keep = {} THEN <<span[1], span[1]>>
        ELSE <<SetMin(keep), SetMax(keep) + 1>>

\* the text of a half-open range
SpanText(s, span) == SubSeq(s, span[1] + 1, span[2])

slice(s, a, b) == SpanText(s, SliceSpan(s, a, b))

trim(s) == SpanText(s, TrimSpan(s, <<0, Len(s)>>))

\* ------------------------------------------------------------------ state
VARIABLES
    \* splitContentIntoChunks(content, maxChunkSize, overlap)
    content, maxChunkSize, overlap,
    \* its locals: the window start, the chunks pushed so far
    start, chunks,
    \* history of the windows <<start, end>> carved so far (not in the code)
    windows,
    \* where the call is: "idle", "call", "loop" or "done"
    cpc,
    \* process.env: the names of the credentials that are set
    env,
    \* callWithFallback(messages, preferredModel): the argument and the
    \* invocation's locals and outcome
    preferredModel, call,
    \* history of the callOpenRouter attempts of the invocation (not in the code)
    attempts,
    \* MemStorage: the two maps, as sequences in insertion order
    contentSessions, messages,
    \* the number of identifiers handed out (randomUUID, multer file names)
    uuids,
    \* the wall clock read by new Date()
    now,
    \* the files in the uploads/ directory
    uploads,
    \* the HTTP requests received so far, each with its handler's position,
    \* locals and response
    reqs,
    \* the event loop is stuck in a synchronous loop that never exits
    hung,
    \* findRelevantChunks(question, chunks, maxChunks): the arguments
    questionArg, chunkList, maxChunks,
    \* its locals chunkScores and relevantChunks, and the value returned
    chunkScores, relevantChunks, returned,
    \* where the call is: "idle", "call", "scored", "selected" or "done"
    rpc,
    \* history of the MemStorage operations called directly and of what each
    \* returned (not in the code)
    storeLog,
    \* generateMCQs(params): which copy of the function runs ("be" is
    \* be/server/services/mcq-generator.ts, "server" is
    \* server/services/mcq-generator.ts), and the topic and numberOfQuestions
    variant, params,
    \* what callWithFallback gave it, its local questions and what it returned
    \* or threw
    completion, questions, outcome,
    \* where the call is: "idle", "call", "parse", "fallback" or "done"
    mpc,
    \* analyzeContent on several chunks: what the model will answer for each
    \* chunk, the array Promise.all is filling, the chunk indices in the order
    \* their calls settled, what analyzeContent returned or threw, and where
    \* it is: "idle", "fanout", "done" or "failed"
    chunkAnswers, chunkAnalyses, completions, analysis, apc

chunkVars == <<content, maxChunkSize, overlap, start, chunks, windows, cpc>>

fallbackVars == <<env, preferredModel, call, attempts>>

serverVars == <<contentSessions, messages, uuids, now, uploads, reqs, hung>>

relevantVars ==
    <<questionArg, chunkList, maxChunks, chunkScores, relevantChunks, returned,
      rpc>>

mcqVars == <<variant, params, completion, questions, outcome, mpc>>

joinVars == <<chunkAnswers, chunkAnalyses, completions, analysis, apc>>

vars ==
    <<chunkVars, fallbackVars, serverVars, relevantVars, storeLog, mcqVars,
      joinVars>>

\* everything but the variables of one component (process.env is never
\* written)
exceptChunk == <<fallbackVars, serverVars, relevantVars, storeLog, mcqVars, joinVars>>

exceptFallback == <<chunkVars, serverVars, relevantVars, storeLog, mcqVars, joinVars>>

exceptServer == <<chunkVars, fallbackVars, relevantVars, storeLog, mcqVars, joinVars>>

exceptRelevant == <<chunkVars, fallbackVars, serverVars, storeLog, mcqVars, joinVars>>

\* what the MemStorage operations leave alone
exceptStore ==
    <<chunkVars, fallbackVars, relevantVars, uploads, reqs, hung, mcqVars,
      joinVars>>

exceptMcq ==
    <<chunkVars, fallbackVars, serverVars, relevantVars, storeLog, joinVars>>

exceptJoin ==
    <<chunkVars, fallbackVars, serverVars, relevantVars, storeLog, mcqVars>>

\* ------------------------------------------------ model configuration
\* lines 6-13: model identifier -> name of the credential it needs
MODEL_CONFIG ==
    ("deepseek/deepseek-chat-v3.1:free" :> "OPENAI_API_KEY_DEEPSEEK") @@
    ("openai/gpt-oss-120b:free" :> "OPENAI_API_KEY_GPTOSS") @@
    ("qwen/qwen3-4b:free" :> "OPENAI_API_KEY_QWEN") @@
    ("meta-llama/llama-3.1-8b-instruct:free" :> "OPENROUTER_API_KEY") @@
    ("microsoft/phi-3-mini-128k-instruct:free" :> "OPENROUTER_API_KEY") @@
    ("google/gemma-2-9b-it:free" :> "OPENROUTER_API_KEY")

\* line 16: Object.keys(MODEL_CONFIG), in insertion order
AVAILABLE_MODELS ==
    << "deepseek/deepseek-chat-v3.1:free",
       "openai/gpt-oss-120b:free",
       "qwen/qwen3-4b:free",
       "meta-llama/llama-3.1-8b-instruct:free",
       "microsoft/phi-3-mini-128k-instruct:free",
       "google/gemma-2-9b-it:free" >>

Range(seq) == {seq[i] : i \in 1..Len(seq)}

\* the credential names process.env may hold
KeyNames == {MODEL_CONFIG[m] : m \in DOMAIN MODEL_CONFIG}

\* an absent optional argument / an unset local
Undefined == "<undefined>"

\* a test that lets every value pass
TruthyAnything(x) == TRUE

\* JavaScript truthiness of an optional string
Truthy(x) == x # Undefined /\ x # ""

\* the values a request may carry as preferredModel: nothing, the empty
\* string, a configured identifier, an identifier that is not configured
PreferredModels == {Undefined, "", "custom/model"} \cup Range(AVAILABLE_MODELS)

\* the role-tagged message lists handed to callWithFallback
MessageLists == {<<[role |-> "user", content |-> <<"prompt">>]>>}

\* what the completion endpoint may do with one request: the fetch rejects,
\* a non-2xx status, a 2xx body without a choices array, a 2xx body whose
\* first choice is missing or has empty content, a 2xx body with a completion
NetOutcomes ==
    { [kind |-> "neterr", status |-> 0, text |-> <<"fetch failed">>],
      [kind |-> "http", status |-> 429, text |-> <<"rate limited">>],
      [kind |-> "badbody", status |-> 200, text |-> <<>>],
      [kind |-> "empty", status |-> 200, text |-> <<>>],
      [kind |-> "text", status |-> 200, text |-> <<"completion">>] }

\* no request went out
NoRequest == [kind |-> "none", status |-> 0, text |-> <<>>]

\* ------------------------------------------------------- callOpenRouter
\* line 37: the credential name of a model
ApiKeyName(model) ==
    IF model \in DOMAIN MODEL_CONFIG THEN MODEL_CONFIG[model] ELSE "OPENROUTER_API_KEY"

\* a callOpenRouter that rejects an empty completion instead of returning ""
CallOpenRouterNonEmpty(model, environment, net) ==
    LET apiKeyName == ApiKeyName(model)
    IN  IF apiKeyName \notin environment
        THEN [threw |-> TRUE, sent |-> FALSE, value |-> <<>>,
              message |-> <<"API key ", apiKeyName, " not found for model ", model>>]
        ELSE IF net.kind = "text"
        THEN [threw |-> FALSE, sent |-> TRUE, value |-> net.text, message |-> <<>>]
        ELSE [threw |-> TRUE, sent |-> TRUE, value |-> <<>>,
              message |-> <<"request failed">> \o net.text]

\* a callOpenRouter that sends its request whether or not the key is set
CallOpenRouterSendingWithoutKey(model, environment, net) ==
    CASE net.kind = "neterr" ->
           [threw |-> TRUE, sent |-> TRUE, value |-> <<>>, message |-> net.text]
      [] net.kind = "http" ->
           [threw |-> TRUE, sent |-> TRUE, value |-> <<>>,
            message |-> <<"OpenRouter API error (", "429", "): ">> \o net.text]
      [] net.kind = "badbody" ->
           [threw |-> TRUE, sent |-> TRUE, value |-> <<>>,
            message |-> <<"Cannot read properties of undefined (reading '0')">>]
      [] net.kind = "empty" ->
           [threw |-> FALSE, sent |-> TRUE, value |-> <<>>, message |-> <<>>]
      [] net.kind = "text" ->
           [threw |-> FALSE, sent |-> TRUE, value |-> net.text, message |-> <<>>]

\* lines 35-67: one request for one model; the result says whether the call
\* threw (and with which message), whether a request went out, and the
\* string returned
CallOpenRouter(model, environment, net) ==
    LET apiKeyName == ApiKeyName(model)
    IN  IF apiKeyName \notin environment
        THEN [threw |-> TRUE, sent |-> FALSE, value |-> <<>>,
              message |-> <<"API key ", apiKeyName, " not found for model ", model>>]
        ELSE CASE net.kind = "neterr" ->
                  [threw |-> TRUE, sent |-> TRUE, value |-> <<>>, message |-> net.text]
               [] net.kind = "http" ->
                  [threw |-> TRUE, sent |-> TRUE, value |-> <<>>,
                   message |-> <<"OpenRouter API error (", "429", "): ">> \o net.text]
               [] net.kind = "badbody" ->
                  [threw |-> TRUE, sent |-> TRUE, value |-> <<>>,
                   message |-> <<"Cannot read properties of undefined (reading '0')">>]
               [] net.kind = "empty" ->
                  [threw |-> FALSE, sent |-> TRUE, value |-> <<>>, message |-> <<>>]
               [] net.kind = "text" ->
                  [threw |-> FALSE, sent |-> TRUE, value |-> net.text, message |-> <<>>]

\* ------------------------------------------------------ callWithFallback
\* a candidate list that keeps the preferred model in the configured list
ModelsToTryKeepingDuplicate(preferred) ==
    IF Truthy(preferred) THEN <<preferred>> \o AVAILABLE_MODELS ELSE AVAILABLE_MODELS

\* line 99: the candidate list
ModelsToTry(preferred) ==
    IF Truthy(preferred)
    THEN <<preferred>> \o SelectSeq(AVAILABLE_MODELS, LAMBDA m : m # preferred)
    ELSE AVAILABLE_MODELS

\* lines 98-101: the locals of a fresh invocation; i is the position of the
\* for loop in modelsToTry
NewCall(msgs, preferred) ==
    [messages |-> msgs, modelsToTry |-> ModelsToTry(preferred), i |-> 1,
     lastError |-> <<>>, status |-> "trying",
     response |-> <<>>, modelUsed |-> Undefined, error |-> <<>>]

\* no invocation
NoCall ==
    [messages |-> <<>>, modelsToTry |-> <<>>, i |-> 1,
     lastError |-> <<>>, status |-> "idle",
     response |-> <<>>, modelUsed |-> Undefined, error |-> <<>>]

\* line 114: the message of the error thrown when the loop runs out
ExhaustedMessage(lastMessage) == <<"All models failed. Last error: ">> \o lastMessage

\* a loop body that reports the head of the candidate list as the model used
CallStepReportingFirst(c, r) ==
    LET model == c.modelsToTry[c.i]
    IN  IF ~r.threw
        THEN [c EXCEPT !.status = "returned", !.response = r.value,
                       !.modelUsed = c.modelsToTry[1]]
        ELSE IF c.i < Len(c.modelsToTry)
        THEN [c EXCEPT !.i = @ + 1, !.lastError = r.message]
        ELSE [c EXCEPT !.i = @ + 1, !.lastError = r.message, !.status = "thrown",
                       !.error = ExhaustedMessage(r.message)]

\* a loop body that keeps the first failure instead of the last
CallStepKeepingFirstError(c, r) ==
    LET model == c.modelsToTry[c.i]
        last == IF c.lastError = <<>> THEN r.message ELSE c.lastError
    IN  IF ~r.threw
        THEN [c EXCEPT !.status = "returned", !.response = r.value, !.modelUsed = model]
        ELSE IF c.i < Len(c.modelsToTry)
        THEN [c EXCEPT !.i = @ + 1, !.lastError = last]
        ELSE [c EXCEPT !.i = @ + 1, !.lastError = last, !.status = "thrown",
                       !.error = ExhaustedMessage(last)]

\* lines 103-114: one pass through the loop body for the candidate at i,
\* given the result r of its callOpenRouter; after the last candidate has
\* failed the loop ends and line 114 throws
CallStep(c, r) ==
    LET model == c.modelsToTry[c.i]
    IN  IF ~r.threw
        THEN [c EXCEPT !.status = "returned", !.response = r.value, !.modelUsed = model]
        ELSE IF c.i < Len(c.modelsToTry)
        THEN [c EXCEPT !.i = @ + 1, !.lastError = r.message]
        ELSE [c EXCEPT !.i = @ + 1, !.lastError = r.message, !.status = "thrown",
                       !.error = ExhaustedMessage(r.message)]

FallbackIdle ==
    /\ env = {}
    /\ preferredModel = Undefined
    /\ call = NoCall
    /\ attempts = <<>>

FallbackInit ==
    /\ env \in SUBSET KeyNames
    /\ preferredModel \in PreferredModels
    /\ \E msgs \in MessageLists : call = NewCall(msgs, preferredModel)
    /\ attempts = <<>>

\* lines 103-112: the next candidate is tried; net is what the endpoint does
\* if a request goes out
TryNextModel(net) ==
    /\ call.status = "trying"
    /\ LET model == call.modelsToTry[call.i]
           r == CallOpenRouter(model, env, net)
       IN  /\ call' = CallStep(call, r)
           /\ attempts' = Append(attempts,
                 [model |-> model, net |-> IF r.sent THEN net ELSE NoRequest,
                  threw |-> r.threw,
                  sent |-> r.sent, message |-> r.message])
    /\ UNCHANGED <<env, preferredModel>>
    /\ UNCHANGED exceptFallback

\* ------------------------------------------- splitContentIntoChunks
\* the window end of one loop iteration (lines 78-89)
WindowEnd(s, st, size) ==
    LET end0 == Min(st + size, Len(s))
        lastSentenceEnd == lastIndexOf(s, <<".">>, end0)
        lastParagraphEnd == lastIndexOf(s, <<"\n", "\n">>, end0)
        breakPoint == Max(lastSentenceEnd, lastParagraphEnd)
    IN  IF end0 < Len(s) /\ 2 * breakPoint > 2 * st + size
        THEN breakPoint + 1
        ELSE end0

\* a next-window start that skips a character
NextStartSkipping(end, ov) == end - ov + 1

\* the start of the next window (line 92)
NextStart(end, ov) == end - ov

\* the chunk pushed for a window (line 91)
ChunkOf(s, st, end) == SpanText(s, TrimSpan(s, SliceSpan(s, st, end)))

ChunkIdle ==
    /\ content = <<>>
    /\ maxChunkSize = 2
    /\ overlap = 0
    /\ start = 0
    /\ chunks = <<>>
    /\ windows = <<>>
    /\ cpc = "idle"

ChunkInit ==
    /\ content \in StringsUpTo(MaxLen)
    /\ maxChunkSize \in 2..MaxSize
    /\ overlap \in 0..(maxChunkSize - 1)
    /\ start = 0
    /\ chunks = <<>>
    /\ windows = <<>>
    /\ cpc = "call"

\* a short-text return that trims like the loop does
ShortResultTrimmed(s) == <<trim(s)>>

\* line 71: return [content]
ShortResult(s) == <<s>>

\* lines 70-75: short text is returned whole, otherwise the loop is entered
SplitEntry ==
    /\ cpc = "call"
    /\ IF Len(content) <= maxChunkSize
       THEN /\ chunks' = ShortResult(content)
            /\ cpc' = "done"
       ELSE /\ chunks' = <<>>
            /\ cpc' = "loop"
    /\ start' = 0
    /\ UNCHANGED <<content, maxChunkSize, overlap, windows>>
    /\ UNCHANGED exceptChunk

\* lines 77-93: one iteration of the while loop
SplitLoopIter ==
    /\ cpc = "loop"
    /\ start < Len(content)
    /\ Len(chunks) < MaxChunks
    /\ LET end == WindowEnd(content, start, maxChunkSize)
       IN  /\ chunks' = Append(chunks, ChunkOf(content, start, end))
           /\ windows' = Append(windows, <<start, end>>)
           /\ start' = NextStart(end, overlap)
    /\ UNCHANGED <<content, maxChunkSize, overlap, cpc>>
    /\ UNCHANGED exceptChunk

\* lines 77, 95: the loop condition fails and the chunks are returned
SplitLoopExit ==
    /\ cpc = "loop"
    /\ ~(start < Len(content))
    /\ cpc' = "done"
    /\ UNCHANGED <<content, maxChunkSize, overlap, start, chunks, windows>>
    /\ UNCHANGED exceptChunk

\* ------------------------------------------------------------ MemStorage
\* SQL NULL / JavaScript null in a stored record
Null == "<null>"

\* x || null
OrNull(x) == IF Truthy(x) THEN x ELSE Null

\* an extracted text, known by its length; MissingContent is null / undefined
MissingContent == [len |-> -1]

NoSession ==
    [id |-> 0, url |-> Null, title |-> Null, topic |-> Null,
     extractedContent |-> MissingContent, modelUsed |-> Null,
     sourceType |-> Null, fileName |-> Null, createdAt |-> 0]

\* a createContentSession that files every session as a URL session
NewContentSessionAsUrl(insertSession, id, t) ==
    [id |-> id,
     url |-> OrNull(insertSession.url),
     title |-> OrNull(insertSession.title),
     topic |-> insertSession.topic,
     extractedContent |-> IF insertSession.extractedContent.len > 0
                          THEN insertSession.extractedContent ELSE MissingContent,
     modelUsed |-> OrNull(insertSession.modelUsed),
     sourceType |-> "url",
     fileName |-> OrNull(insertSession.fileName),
     createdAt |-> t]

\* storage.ts lines 30-47: the record createContentSession stores
NewContentSession(insertSession, id, t) ==
    [id |-> id,
     url |-> OrNull(insertSession.url),
     title |-> OrNull(insertSession.title),
     topic |-> insertSession.topic,
     extractedContent |-> IF insertSession.extractedContent.len > 0
                          THEN insertSession.extractedContent ELSE MissingContent,
     modelUsed |-> OrNull(insertSession.modelUsed),
     sourceType |-> IF Truthy(insertSession.sourceType)
                    THEN insertSession.sourceType ELSE "url",
     fileName |-> OrNull(insertSession.fileName),
     createdAt |-> t]

\* a lookup that returns the session stored last, whatever the identifier
getContentSessionLatest(id) ==
    IF contentSessions = <<>> THEN NoSession
    ELSE contentSessions[Len(contentSessions)]

\* storage.ts lines 49-51
getContentSession(id) ==
    LET hits == {k \in 1..Len(contentSessions) : contentSessions[k].id = id}
    IN  IF hits = {} THEN NoSession ELSE contentSessions[SetMax(hits)]

\* a Map.set that replaces the entry inserted last
MapSetOverLast(map, rec) ==
    IF map = <<>> THEN <<rec>> ELSE [map EXCEPT ![Len(map)] = rec]

\* Map.prototype.set(rec.id, rec) on a map kept in iteration order: the value
\* of an existing key is replaced in place, a new key goes behind the others
MapSet(map, rec) ==
    IF \E k \in 1..Len(map) : map[k].id = rec.id
    THEN [k \in 1..Len(map) |-> IF map[k].id = rec.id THEN rec ELSE map[k]]
    ELSE Append(map, rec)

\* a createMessage that keys the message by its session
NewMessageKeyedBySession(insertMessage, id, t) ==
    [id |-> insertMessage.sessionId, sessionId |-> insertMessage.sessionId,
     role |-> insertMessage.role, content |-> insertMessage.content,
     modelUsed |-> OrNull(insertMessage.modelUsed),
     timestamp |-> t]

\* storage.ts lines 59-69: the record createMessage stores
NewMessage(insertMessage, id, t) ==
    [id |-> id, sessionId |-> insertMessage.sessionId, role |-> insertMessage.role,
     content |-> insertMessage.content,
     modelUsed |-> OrNull(insertMessage.modelUsed),
     timestamp |-> t]

\* a sort that puts m in front of the elements with its timestamp
InsertByTimestampBeforeEqual(sorted, m) ==
    LET later == {k \in 1..Len(sorted) : sorted[k].timestamp >= m.timestamp}
        at == IF later = {} THEN Len(sorted) + 1 ELSE SetMin(later)
    IN  SubSeq(sorted, 1, at - 1) \o <<m>> \o SubSeq(sorted, at, Len(sorted))

\* Array.prototype.sort by ascending timestamp (the sort is stable): insert
\* m behind every element that is not later than it
InsertByTimestamp(sorted, m) ==
    LET later == {k \in 1..Len(sorted) : sorted[k].timestamp > m.timestamp}
        at == IF later = {} THEN Len(sorted) + 1 ELSE SetMin(later)
    IN  SubSeq(sorted, 1, at - 1) \o <<m>> \o SubSeq(sorted, at, Len(sorted))

RECURSIVE SortByTimestamp(_)
SortByTimestamp(seq) ==
    IF seq = <<>> THEN <<>>
    ELSE InsertByTimestamp(SortByTimestamp(SubSeq(seq, 1, Len(seq) - 1)), seq[Len(seq)])

\* storage.ts lines 71-75
getMessagesBySessionId(sessionId) ==
    SortByTimestamp(SelectSeq(messages, LAMBDA m : m.sessionId = sessionId))

\* ------------------------------------------------ analysis and answering
\* openai.ts lines 19-20
MAX_CHUNK_SIZE == 8000

CHUNK_OVERLAP == 200

\* scraper.ts line 61 and pdf-processor.ts line 10: the shortest text accepted
URL_MIN_LENGTH == 100

PDF_MIN_LENGTH == 50

\* splitContentIntoChunks(content) with the default parameters returns: a
\* text of at most MAX_CHUNK_SIZE characters comes back as one chunk; for a
\* longer one the loop of lines 77-93 exits only if start can reach the
\* length, that is only without overlap (SplitReturnsOnlyWithoutOverlap
\* checks this against the loop itself)
SplitReturns(text) == text.len <= MAX_CHUNK_SIZE \/ CHUNK_OVERLAP <= 0

\* openai.ts lines 270-316: the message list answerQuestion hands to
\* callWithFallback; the conversation history is not among its parameters
AnswerMessages(question, text, topic) ==
    IF text.len <= 0
    THEN << [role |-> "system", content |-> <<"open discussion about ", topic>>],
            [role |-> "user", content |-> question] >>
    ELSE << [role |-> "system", content |-> <<"answer from the content about ", topic>>],
            [role |-> "user", content |-> question] >>

\* openai.ts lines 168-184: the message list of a single-chunk analysis
AnalysisMessages(text, topic) ==
    << [role |-> "user", content |-> <<"analyze the content about ", topic>>] >>

\* wrappers that let the error of callWithFallback through
AnalyzeContentErrorPassing(callError) == callError

AnswerQuestionErrorPassing(callError) == callError

\* openai.ts lines 239-242: what analyzeContent throws when its try block threw
AnalyzeContentError(callError) == <<"Failed to analyze content with AI">>

\* openai.ts lines 344-347: what answerQuestion throws when its try block threw
AnswerQuestionError(callError) == <<"Failed to get AI response">>

\* openai.ts lines 287, 313, 341: response || default
AnswerOf(response) ==
    IF response = <<>>
    THEN <<"I couldn't process your question. Please try again.">>
    ELSE response

\* ---------------------------------------------------------------- routes
\* a request field that is absent
UndefinedText == <<Undefined>>

\* the values of the request fields
Questions == {UndefinedText, <<" ">>, <<" ", "q", " ">>}

Topics == {Undefined, "math"}

Urls == {Undefined, "https://example.org/page"}

RequestPreferredModels == {Undefined, "custom/model"}

\* the bodies sent: a body that lacks a required field names no model
PreferredModelsOf(complete) ==
    IF complete THEN RequestPreferredModels ELSE {Undefined}

\* the text a page or a PDF may yield, by length: below both thresholds,
\* between them, a short document, a document longer than one chunk
ExtractedLengths == {20, 60, 120, 9000}

\* the text pdf-parse may yield: raw is the length of data.text.trim(), clean
\* the length after the runs of whitespace are collapsed (pdf-processor.ts
\* lines 15-18); one text has long runs of whitespace between its words
PdfTexts ==
    {[raw |-> n, clean |-> n] : n \in ExtractedLengths}
        \cup {[raw |-> 60, clean |-> 20]}

\* a request as received: kind is the route, pc the position of its handler
NewRequest(kind) ==
    [kind |-> kind, pc |-> "start",
     url |-> Undefined, topic |-> Undefined, preferredModel |-> Undefined,
     question |-> UndefinedText, sessionId |-> 0, file |-> 0,
     tempFilePath |-> 0, session |-> NoSession,
     extractedContent |-> MissingContent, history |-> <<>>, call |-> NoCall,
     userMessage |-> 0, assistantMessage |-> 0, created |-> 0,
     status |-> 0, message |-> <<>>]

\* res.status(code).json({message})
Respond(r, code, message) ==
    [r EXCEPT !.pc = "responded", !.status = code, !.message = message]

\* what is left of a request once its handler has returned: the session it
\* named, the uploaded file's name, the response and, for the record, the
\* identifiers of the messages it stored; the handler's other locals are gone
Returned(r) ==
    [NewRequest(r.kind) EXCEPT !.pc = "done", !.file = r.file,
                               !.sessionId = r.sessionId,
                               !.userMessage = r.userMessage,
                               !.assistantMessage = r.assistantMessage,
                               !.status = r.status, !.message = r.message]

\* pdf-processor.ts lines 29-37
cleanupTempFile(files, filePath) == files \ {filePath}

\* routes.ts lines 220-225: the finally block of the extract-pdf handler
PdfFinally(files, r) ==
    IF r.tempFilePath # 0 THEN cleanupTempFile(files, r.tempFilePath) ELSE files

ServerIdle ==
    /\ contentSessions = <<>>
    /\ messages = <<>>
    /\ uuids = 0
    /\ now = 0
    /\ uploads = {}
    /\ reqs = <<>>
    /\ hung = FALSE
    /\ storeLog = <<>>

\* the server after start-up: empty maps (storage.ts lines 24-28)
ServerInit ==
    /\ env \in {KeyNames, {"OPENROUTER_API_KEY"}}
    /\ preferredModel = Undefined
    /\ call = NoCall
    /\ attempts = <<>>
    /\ ServerIdle

\* the requests whose handlers have not finished
InFlight == {i \in 1..Len(reqs) : reqs[i].pc # "done"}

\* a further request can arrive
CanReceive ==
    /\ ~hung
    /\ Len(reqs) < MaxRequests
    /\ Cardinality(InFlight) < MaxInFlight

\* new Date() in createMessage: the clock has or has not advanced since a
\* message was last stamped (the createdAt of a session is never compared)
ClockReadings == {t \in {now, now + 1} : t <= MaxTime}

\* POST /api/sessions/:sessionId/ask arrives
ReceiveAsk ==
    /\ CanReceive
    /\ \E q \in Questions,
          sid \in {0} \cup {contentSessions[k].id : k \in 1..Len(contentSessions)} :
       \E p \in PreferredModelsOf(q # UndefinedText /\ Len(trim(q)) > 0) :
          reqs' = Append(reqs, [NewRequest("ask") EXCEPT
                     !.question = q, !.preferredModel = p, !.sessionId = sid])
    /\ UNCHANGED <<contentSessions, messages, uuids, now, uploads, hung>>
    /\ UNCHANGED exceptServer

\* routes.ts lines 100-107: validation, then getContentSession is called
AskStart(i) ==
    /\ ~hung
    /\ reqs[i].kind = "ask" /\ reqs[i].pc = "start"
    /\ LET r == reqs[i]
       IN  IF r.question = UndefinedText \/ trim(r.question) = <<>>
           THEN reqs' = [reqs EXCEPT ![i] = Respond(r, 400, <<"Question is required">>)]
           ELSE reqs' = [reqs EXCEPT ![i] =
                    [r EXCEPT !.pc = "lookup", !.session = getContentSession(r.sessionId)]]
    /\ UNCHANGED <<contentSessions, messages, uuids, now, uploads, hung>>
    /\ UNCHANGED exceptServer

\* routes.ts lines 108-119: 404, or the user message is saved
AskSaveUser(i) ==
    /\ ~hung
    /\ reqs[i].kind = "ask" /\ reqs[i].pc = "lookup"
    /\ LET r == reqs[i]
       IN  IF r.session = NoSession
           THEN /\ reqs' = [reqs EXCEPT ![i] = Respond(r, 404, <<"Session not found">>)]
                /\ UNCHANGED <<messages, uuids, now>>
           ELSE /\ uuids' = uuids + 1
                /\ \E t \in ClockReadings :
                      /\ now' = t
                      /\ messages' = MapSet(messages,
                            NewMessage([sessionId |-> r.sessionId, role |-> "user",
                                        content |-> trim(r.question),
                                        modelUsed |-> Undefined],
                                       uuids + 1, t))
                /\ reqs' = [reqs EXCEPT ![i] =
                      [r EXCEPT !.pc = "saved", !.userMessage = uuids + 1]]
    /\ UNCHANGED <<contentSessions, uploads, hung>>
    /\ UNCHANGED exceptServer

\* routes.ts lines 121-126: the transcript is read as conversation history
AskHistory(i) ==
    /\ ~hung
    /\ reqs[i].kind = "ask" /\ reqs[i].pc = "saved"
    /\ LET r == reqs[i]
           existingMessages == getMessagesBySessionId(r.sessionId)
           conversationHistory ==
               [k \in 1..Len(existingMessages) |->
                   [role |-> existingMessages[k].role,
                    content |-> existingMessages[k].content]]
       IN  reqs' = [reqs EXCEPT ![i] =
               [r EXCEPT !.pc = "history", !.history = conversationHistory]]
    /\ UNCHANGED <<contentSessions, messages, uuids, now, uploads, hung>>
    /\ UNCHANGED exceptServer

\* routes.ts lines 129-135 and openai.ts lines 267-338: answerQuestion is
\* called with the history as a fifth argument it does not declare; it
\* chunks the content and starts callWithFallback
AskAnswer(i) ==
    /\ ~hung
    /\ reqs[i].kind = "ask" /\ reqs[i].pc = "history"
    /\ LET r == reqs[i]
           text == r.session.extractedContent
       IN  IF text.len > 0 /\ ~SplitReturns(text)
           THEN /\ hung' = TRUE
                /\ reqs' = [reqs EXCEPT ![i] = [r EXCEPT !.pc = "chunking"]]
           ELSE /\ hung' = hung
                /\ reqs' = [reqs EXCEPT ![i] =
                      [r EXCEPT !.pc = "model",
                                !.call = NewCall(AnswerMessages(trim(r.question), text,
                                                                r.session.topic),
                                                 r.preferredModel)]]
    /\ UNCHANGED <<contentSessions, messages, uuids, now, uploads>>
    /\ UNCHANGED exceptServer

\* the positions in the candidate list at which the endpoint first answers
\* in the server runs (0: it answers no candidate)
FirstAnswering == {0, 1}

\* the behaviours of the endpoint over a whole candidate list: the candidate
\* at k is the first it answers and the requests for the others fail alike
OutcomeVectors(n) ==
    { [j \in 1..n |-> IF j = k THEN ok ELSE bad] :
        k \in FirstAnswering,
        ok \in {o \in NetOutcomes : o.kind \in {"empty", "text"}},
        bad \in {o \in NetOutcomes : o.kind = "http"} }

\* openai.ts lines 103-114: the loop of callWithFallback run to its end
\* against the endpoint behaviour outs
RECURSIVE RunCall(_, _, _)
RunCall(c, environment, outs) ==
    IF c.status # "trying" THEN c
    ELSE RunCall(CallStep(c, CallOpenRouter(c.modelsToTry[c.i], environment, outs[c.i])),
                 environment, outs)

\* openai.ts lines 98-115: the pending callWithFallback of a request settles.
\* Its awaits touch nothing but its own locals, so the requests it makes are
\* taken as one step here; SpecFallback takes them one by one
ModelStep(i) ==
    /\ ~hung
    /\ reqs[i].pc = "model" /\ reqs[i].call.status = "trying"
    /\ \E outs \in OutcomeVectors(Len(reqs[i].call.modelsToTry)) :
          reqs' = [reqs EXCEPT ![i] =
              [reqs[i] EXCEPT !.call = RunCall(reqs[i].call, env, outs)]]
    /\ UNCHANGED <<contentSessions, messages, uuids, now, uploads, hung>>
    /\ UNCHANGED exceptServer

\* routes.ts lines 137-145: the answer is saved as the assistant message; the
\* modelUsed field is commented out of the insert
AskSaveAssistant(i) ==
    /\ ~hung
    /\ reqs[i].kind = "ask" /\ reqs[i].pc = "model"
    /\ reqs[i].call.status = "returned"
    /\ LET r == reqs[i]
       IN  /\ uuids' = uuids + 1
           /\ \E t \in ClockReadings :
                 /\ now' = t
                 /\ messages' = MapSet(messages,
                       NewMessage([sessionId |-> r.sessionId, role |-> "assistant",
                                   content |-> AnswerOf(r.call.response),
                                   modelUsed |-> Undefined],
                                  uuids + 1, t))
           /\ reqs' = [reqs EXCEPT ![i] =
                 [r EXCEPT !.pc = "respond", !.assistantMessage = uuids + 1]]
    /\ UNCHANGED <<contentSessions, uploads, hung>>
    /\ UNCHANGED exceptServer

\* routes.ts lines 147-150
AskRespond(i) ==
    /\ ~hung
    /\ reqs[i].kind = "ask" /\ reqs[i].pc = "respond"
    /\ reqs' = [reqs EXCEPT ![i] = Respond(reqs[i], 200, <<>>)]
    /\ UNCHANGED <<contentSessions, messages, uuids, now, uploads, hung>>
    /\ UNCHANGED exceptServer

\* a failure path that takes the user message back out of the transcript
AskFailedRollingBack(i) ==
    /\ ~hung
    /\ reqs[i].kind = "ask" /\ reqs[i].pc = "model"
    /\ reqs[i].call.status = "thrown"
    /\ reqs' = [reqs EXCEPT ![i] =
          Respond(reqs[i], 500, AnswerQuestionError(reqs[i].call.error))]
    /\ messages' = SelectSeq(messages, LAMBDA m : m.id # reqs[i].userMessage)
    /\ UNCHANGED <<contentSessions, uuids, now, uploads, hung>>
    /\ UNCHANGED exceptServer

\* openai.ts lines 344-347 and routes.ts lines 151-156: every model failed
AskFailed(i) ==
    /\ ~hung
    /\ reqs[i].kind = "ask" /\ reqs[i].pc = "model"
    /\ reqs[i].call.status = "thrown"
    /\ reqs' = [reqs EXCEPT ![i] =
          Respond(reqs[i], 500, AnswerQuestionError(reqs[i].call.error))]
    /\ UNCHANGED <<contentSessions, messages, uuids, now, uploads, hung>>
    /\ UNCHANGED exceptServer

\* openai.ts lines 161-184: analyzeContent chunks the text and, for a single
\* chunk, starts callWithFallback; a text that splitContentIntoChunks never
\* finishes with blocks the event loop; several chunks are fanned out
StartAnalysis(r, text) ==
    IF ~SplitReturns(text)
    THEN [r EXCEPT !.pc = "chunking", !.extractedContent = text]
    ELSE IF text.len <= MAX_CHUNK_SIZE
    THEN [r EXCEPT !.pc = "model", !.extractedContent = text,
                   !.call = NewCall(AnalysisMessages(text, r.topic), r.preferredModel)]
    ELSE [r EXCEPT !.pc = "fanout", !.extractedContent = text]

\* POST /api/create-topic-session arrives
ReceiveTopic ==
    /\ CanReceive
    /\ \E t \in Topics :
       \E p \in PreferredModelsOf(Truthy(t)) :
          reqs' = Append(reqs, [NewRequest("topic") EXCEPT
                     !.topic = t, !.preferredModel = p])
    /\ UNCHANGED <<contentSessions, messages, uuids, now, uploads, hung>>
    /\ UNCHANGED exceptServer

\* routes.ts lines 229-245: validation, then the session is stored
TopicStart(i) ==
    /\ ~hung
    /\ reqs[i].kind = "topic" /\ reqs[i].pc = "start"
    /\ LET r == reqs[i]
       IN  IF ~Truthy(r.topic)
           THEN /\ reqs' = [reqs EXCEPT ![i] = Respond(r, 400, <<"Topic is required">>)]
                /\ UNCHANGED <<contentSessions, uuids>>
           ELSE /\ uuids' = uuids + 1
                /\ contentSessions' = MapSet(contentSessions,
                      NewContentSession(
                          [url |-> Undefined, topic |-> r.topic,
                           title |-> "Discussion about topic",
                           extractedContent |-> MissingContent,
                           modelUsed |-> IF Truthy(r.preferredModel)
                                         THEN r.preferredModel
                                         ELSE AVAILABLE_MODELS[1],
                           sourceType |-> "topic-only", fileName |-> Undefined],
                          uuids + 1, now))
                /\ reqs' = [reqs EXCEPT ![i] =
                      [r EXCEPT !.pc = "respond", !.created = uuids + 1]]
    /\ UNCHANGED <<messages, now, uploads, hung>>
    /\ UNCHANGED exceptServer

\* POST /api/extract-content arrives
ReceiveUrl ==
    /\ CanReceive
    /\ \E u \in Urls, t \in Topics :
       \E p \in PreferredModelsOf(Truthy(u) /\ Truthy(t)) :
          reqs' = Append(reqs, [NewRequest("url") EXCEPT
                     !.url = u, !.topic = t, !.preferredModel = p])
    /\ UNCHANGED <<contentSessions, messages, uuids, now, uploads, hung>>
    /\ UNCHANGED exceptServer

\* routes.ts lines 30-37: validation, then extractContentFromUrl is called
UrlStart(i) ==
    /\ ~hung
    /\ reqs[i].kind = "url" /\ reqs[i].pc = "start"
    /\ LET r == reqs[i]
       IN  IF ~Truthy(r.url) \/ ~Truthy(r.topic)
           THEN reqs' = [reqs EXCEPT ![i] = Respond(r, 400, <<"URL and topic are required">>)]
           ELSE reqs' = [reqs EXCEPT ![i] = [r EXCEPT !.pc = "extract"]]
    /\ UNCHANGED <<contentSessions, messages, uuids, now, uploads, hung>>
    /\ UNCHANGED exceptServer

\* scraper.ts lines 3-72 and routes.ts lines 37-40, 64-69: the fetch fails or
\* the page yields a text; a text that is long enough goes to analyzeContent
UrlExtracted(i) ==
    /\ ~hung
    /\ reqs[i].kind = "url" /\ reqs[i].pc = "extract"
    /\ \E fetched \in {0} \cup ExtractedLengths :
          LET r == reqs[i]
          IN  IF fetched = 0
              THEN /\ reqs' = [reqs EXCEPT ![i] = Respond(r, 500,
                          <<"Content extraction failed: ", "Failed to fetch content">>)]
                   /\ hung' = hung
              ELSE IF fetched < URL_MIN_LENGTH
              THEN /\ reqs' = [reqs EXCEPT ![i] = Respond(r, 500,
                          <<"Content extraction failed: ",
                            "Unable to extract meaningful content from the URL">>)]
                   /\ hung' = hung
              ELSE /\ reqs' = [reqs EXCEPT ![i] = StartAnalysis(r, [len |-> fetched])]
                   /\ hung' = ~SplitReturns([len |-> fetched])
    /\ UNCHANGED <<contentSessions, messages, uuids, now, uploads>>
    /\ UNCHANGED exceptServer

\* POST /api/extract-pdf arrives; multer has written an accepted upload to
\* uploads/ before the handler runs (routes.ts lines 12-24, 171)
ReceivePdf ==
    /\ CanReceive
    /\ \E withFile \in BOOLEAN, t \in Topics :
       \E p \in PreferredModelsOf(withFile /\ Truthy(t)) :
          /\ reqs' = Append(reqs, [NewRequest("pdf") EXCEPT
                        !.file = IF withFile THEN uuids + 1 ELSE 0,
                        !.topic = t, !.preferredModel = p])
          /\ uploads' = IF withFile THEN uploads \cup {uuids + 1} ELSE uploads
          /\ uuids' = IF withFile THEN uuids + 1 ELSE uuids
    /\ UNCHANGED <<contentSessions, messages, now, hung>>
    /\ UNCHANGED exceptServer

\* routes.ts lines 172-188, 220-225: validation (each return runs the finally
\* block), then tempFilePath is set and extractTextFromPDF is called
PdfStart(i) ==
    /\ ~hung
    /\ reqs[i].kind = "pdf" /\ reqs[i].pc = "start"
    /\ LET r == reqs[i]
       IN  IF r.file = 0
           THEN /\ reqs' = [reqs EXCEPT ![i] = Respond(r, 400, <<"PDF file is required">>)]
                /\ uploads' = PdfFinally(uploads, r)
           ELSE IF ~Truthy(r.topic)
           THEN /\ reqs' = [reqs EXCEPT ![i] = Respond(r, 400, <<"Topic is required">>)]
                /\ uploads' = PdfFinally(uploads, r)
           ELSE /\ reqs' = [reqs EXCEPT ![i] =
                      [r EXCEPT !.pc = "extract", !.tempFilePath = r.file]]
                /\ uploads' = uploads
    /\ UNCHANGED <<contentSessions, messages, uuids, now, hung>>
    /\ UNCHANGED exceptServer

\* pdf-processor.ts lines 3-27 and routes.ts lines 188-191, 215-225: the
\* extraction throws or yields a text; a text that is long enough goes to
\* analyzeContent
PdfExtracted(i) ==
    /\ ~hung
    /\ reqs[i].kind = "pdf" /\ reqs[i].pc = "extract"
    /\ \E parsed \in {[raw |-> 0, clean |-> 0]} \cup PdfTexts :
          LET r == reqs[i]
          IN  IF parsed.raw = 0
              THEN /\ reqs' = [reqs EXCEPT ![i] = Respond(r, 500,
                          <<"PDF processing failed: ", "Invalid PDF structure">>)]
                   /\ uploads' = PdfFinally(uploads, r)
                   /\ hung' = hung
              ELSE IF parsed.raw < PDF_MIN_LENGTH
              THEN /\ reqs' = [reqs EXCEPT ![i] = Respond(r, 500,
                          <<"PDF processing failed: ",
                            "Unable to extract meaningful text from the PDF">>)]
                   /\ uploads' = PdfFinally(uploads, r)
                   /\ hung' = hung
              ELSE /\ reqs' = [reqs EXCEPT ![i] =
                         StartAnalysis(r, [len |-> parsed.clean])]
                   /\ uploads' = uploads
                   /\ hung' = ~SplitReturns([len |-> parsed.clean])
    /\ UNCHANGED <<contentSessions, messages, uuids, now>>
    /\ UNCHANGED exceptServer

\* openai.ts lines 186-206 and routes.ts lines 42-54, 193-205: the analysis
\* has returned and the session is stored
AnalysisDone(i) ==
    /\ ~hung
    /\ reqs[i].kind \in {"url", "pdf"} /\ reqs[i].pc = "model"
    /\ reqs[i].call.status = "returned"
    /\ LET r == reqs[i]
       IN  /\ uuids' = uuids + 1
           /\ contentSessions' = MapSet(contentSessions,
                 NewContentSession(
                     [url |-> IF r.kind = "url" THEN r.url ELSE Undefined,
                      topic |-> r.topic,
                      title |-> "Extracted Content",
                      extractedContent |-> r.extractedContent,
                      modelUsed |-> r.call.modelUsed,
                      sourceType |-> r.kind,
                      fileName |-> IF r.kind = "pdf" THEN "upload.pdf" ELSE Undefined],
                     uuids + 1, now))
           /\ reqs' = [reqs EXCEPT ![i] =
                 [r EXCEPT !.pc = "respond", !.created = uuids + 1]]
    /\ UNCHANGED <<messages, now, uploads, hung>>
    /\ UNCHANGED exceptServer

\* a failure path that stores the session without its analysis
AnalysisFailedStoringPartial(i) ==
    /\ ~hung
    /\ reqs[i].kind \in {"url", "pdf"} /\ reqs[i].pc = "model"
    /\ reqs[i].call.status = "thrown"
    /\ reqs' = [reqs EXCEPT ![i] =
          Respond(reqs[i], 500, AnalyzeContentError(reqs[i].call.error))]
    /\ uploads' = IF reqs[i].kind = "pdf" THEN PdfFinally(uploads, reqs[i]) ELSE uploads
    /\ uuids' = uuids + 1
    /\ contentSessions' = MapSet(contentSessions,
          NewContentSession(
              [url |-> Undefined, topic |-> reqs[i].topic, title |-> Undefined,
               extractedContent |-> reqs[i].extractedContent,
               modelUsed |-> Undefined, sourceType |-> reqs[i].kind,
               fileName |-> Undefined],
              uuids + 1, now))
    /\ UNCHANGED <<messages, now, hung>>
    /\ UNCHANGED exceptServer

\* openai.ts lines 239-242 and routes.ts lines 64-69, 215-225: every model
\* failed
AnalysisFailed(i) ==
    /\ ~hung
    /\ reqs[i].kind \in {"url", "pdf"} /\ reqs[i].pc = "model"
    /\ reqs[i].call.status = "thrown"
    /\ reqs' = [reqs EXCEPT ![i] =
          Respond(reqs[i], 500, AnalyzeContentError(reqs[i].call.error))]
    /\ uploads' = IF reqs[i].kind = "pdf" THEN PdfFinally(uploads, reqs[i]) ELSE uploads
    /\ UNCHANGED <<contentSessions, messages, uuids, now, hung>>
    /\ UNCHANGED exceptServer

\* routes.ts lines 56-63, 207-214, 220-225, 247-254: the session is returned
SessionRespond(i) ==
    /\ ~hung
    /\ reqs[i].kind \in {"url", "pdf", "topic"} /\ reqs[i].pc = "respond"
    /\ reqs' = [reqs EXCEPT ![i] = Respond(reqs[i], 200, <<>>)]
    /\ uploads' = IF reqs[i].kind = "pdf" THEN PdfFinally(uploads, reqs[i]) ELSE uploads
    /\ UNCHANGED <<contentSessions, messages, uuids, now, hung>>
    /\ UNCHANGED exceptServer

\* the async handler of request i returns after its response was sent
HandlerReturns(i) ==
    /\ ~hung
    /\ reqs[i].pc = "responded"
    /\ reqs' = [reqs EXCEPT ![i] = Returned(reqs[i])]
    /\ UNCHANGED <<contentSessions, messages, uuids, now, uploads, hung>>
    /\ UNCHANGED exceptServer

\* ------------------------------------------- MemStorage called directly
\* the records the three creation routes hand to createContentSession
\* (routes.ts lines 43-52, 194-203, 238-243)
SessionInserts ==
    { [url |-> "https://example.org/page", topic |-> "math",
       title |-> "Extracted Content", extractedContent |-> [len |-> 120],
       modelUsed |-> AVAILABLE_MODELS[1], sourceType |-> "url",
       fileName |-> Undefined],
      [url |-> Undefined, topic |-> "math",
       title |-> "Extracted Content", extractedContent |-> [len |-> 60],
       modelUsed |-> AVAILABLE_MODELS[1], sourceType |-> "pdf",
       fileName |-> "upload.pdf"],
      [url |-> Undefined, topic |-> "math",
       title |-> "Discussion about topic", extractedContent |-> MissingContent,
       modelUsed |-> AVAILABLE_MODELS[1], sourceType |-> "topic-only",
       fileName |-> Undefined] }

\* the session identifiers a caller may name: those handed out and one that
\* belongs to no session
KnownSessionIds == {0} \cup {contentSessions[k].id : k \in 1..Len(contentSessions)}

\* storage.ts lines 30-47
StoreCreateSession ==
    /\ Len(storeLog) < MaxOps
    /\ \E insertSession \in SessionInserts :
          LET session == NewContentSession(insertSession, uuids + 1, now)
          IN  /\ contentSessions' = MapSet(contentSessions, session)
              /\ storeLog' = Append(storeLog,
                    [op |-> "createContentSession", arg |-> 0,
                     result |-> <<session>>])
    /\ uuids' = uuids + 1
    /\ UNCHANGED <<messages, now>>
    /\ UNCHANGED exceptStore

\* storage.ts lines 49-51
StoreGetSession ==
    /\ Len(storeLog) < MaxOps
    /\ \E id \in KnownSessionIds :
          storeLog' = Append(storeLog,
              [op |-> "getContentSession", arg |-> id,
               result |-> <<getContentSession(id)>>])
    /\ UNCHANGED <<contentSessions, messages, uuids, now>>
    /\ UNCHANGED exceptStore

\* storage.ts lines 59-69
StoreCreateMessage ==
    /\ Len(storeLog) < MaxOps
    /\ \E sessionId \in KnownSessionIds, role \in {"user", "assistant"},
          t \in ClockReadings :
          LET message == NewMessage([sessionId |-> sessionId, role |-> role,
                                     content |-> <<"text">>,
                                     modelUsed |-> Undefined],
                                    uuids + 1, t)
          IN  /\ messages' = MapSet(messages, message)
              /\ now' = t
              /\ storeLog' = Append(storeLog,
                    [op |-> "createMessage", arg |-> sessionId,
                     result |-> <<message>>])
    /\ uuids' = uuids + 1
    /\ UNCHANGED contentSessions
    /\ UNCHANGED exceptStore

\* storage.ts lines 71-75
StoreGetMessages ==
    /\ Len(storeLog) < MaxOps
    /\ \E sessionId \in KnownSessionIds :
          storeLog' = Append(storeLog,
              [op |-> "getMessagesBySessionId", arg |-> sessionId,
               result |-> getMessagesBySessionId(sessionId)])
    /\ UNCHANGED <<contentSessions, messages, uuids, now>>
    /\ UNCHANGED exceptStore

\* ------------------------------------------------------ findRelevantChunks
\* String.prototype.toLowerCase on the letters used here
LowerCase(c) ==
    IF c = "A" THEN "a" ELSE IF c = "B" THEN "b"
    ELSE IF c = "C" THEN "c" ELSE IF c = "D" THEN "d" ELSE c

toLowerCase(s) == [k \in 1..Len(s) |-> LowerCase(s[k])]

\* s.split(/\s+/): the pieces between maximal runs of whitespace; a run at
\* the start or the end leaves an empty piece there, "" gives [""]
RECURSIVE SplitFrom(_, _, _)
SplitFrom(s, k, word) ==
    IF k > Len(s) THEN <<word>>
    ELSE IF s[k] \in Whitespace
         THEN IF k > 1 /\ s[k - 1] \in Whitespace
              THEN SplitFrom(s, k + 1, word)
              ELSE <<word>> \o SplitFrom(s, k + 1, <<>>)
         ELSE SplitFrom(s, k + 1, Append(word, s[k]))

splitWhitespace(s) == SplitFrom(s, 1, <<>>)

\* String.prototype.includes
includes(s, w) == \E i \in 0..Len(s) : MatchesAt(s, w, i)

\* line 247: the lowercased words of the question longer than 3 characters
QuestionWords(q) ==
    SelectSeq(splitWhitespace(toLowerCase(q)), LAMBDA word : Len(word) > 3)

\* a score that counts each chunk word once, however many question words
\* it includes
ScoreCountingWordsOnce(chunk, questionWords) ==
    LET chunkWords == splitWhitespace(toLowerCase(chunk))
    IN  Cardinality({j \in 1..Len(chunkWords) :
                        \E k \in 1..Len(questionWords) :
                            includes(chunkWords[j], questionWords[k])})

\* lines 250-253: for each question word, the number of chunk words that
\* include it, summed over the question words
RECURSIVE ScoreFrom(_, _, _)
ScoreFrom(chunkWords, questionWords, k) ==
    IF k > Len(questionWords) THEN 0
    ELSE Cardinality({j \in 1..Len(chunkWords) :
                         includes(chunkWords[j], questionWords[k])})
         + ScoreFrom(chunkWords, questionWords, k + 1)

Score(chunk, questionWords) ==
    ScoreFrom(splitWhitespace(toLowerCase(chunk)), questionWords, 1)

\* lines 249-255: chunks.map((chunk, index) => ({chunk, score, index}))
ChunkScores(q, list) ==
    [k \in 1..Len(list) |->
        [chunk |-> list[k], score |-> Score(list[k], QuestionWords(q)),
         index |-> k - 1]]

\* the comparators: line 259 (a, b) => b.score - a.score, line 261
\* (a, b) => a.index - b.index, and one that ranks equal scores by
\* descending index
Before(order, a, b) ==
    CASE order = "score" -> a.score > b.score
      [] order = "index" -> a.index < b.index
      [] order = "scoreLateFirst" ->
            a.score > b.score \/ (a.score = b.score /\ a.index > b.index)

\* Array.prototype.sort with a comparator (stable): insert item behind every
\* element the comparator does not put after it
RECURSIVE InsertSorted(_, _, _)
InsertSorted(sorted, item, order) ==
    IF sorted = <<>> THEN <<item>>
    ELSE IF Before(order, item, Head(sorted))
         THEN <<item>> \o sorted
         ELSE <<Head(sorted)>> \o InsertSorted(Tail(sorted), item, order)

RECURSIVE StableSort(_, _)
StableSort(seq, order) ==
    IF seq = <<>> THEN <<>>
    ELSE InsertSorted(StableSort(SubSeq(seq, 1, Len(seq) - 1), order),
                      seq[Len(seq)], order)

\* Array.prototype.slice(0, n) for n >= 0
sliceFirst(seq, n) == SubSeq(seq, 1, Min(n, Len(seq)))

\* a selection whose sort puts the later of two equal scores first
RelevantChunksLateFirst(scores, n) ==
    LET top == sliceFirst(StableSort(scores, "scoreLateFirst"), n)
    IN  StableSort(top, "index")

\* a selection left in score order
RelevantChunksInScoreOrder(scores, n) ==
    sliceFirst(StableSort(scores, "score"), n)

\* lines 258-262: the top maxChunks by score, back in document order
RelevantChunks(scores, n) ==
    LET top == sliceFirst(StableSort(scores, "score"), n)
    IN  StableSort(top, "index")

\* the questions and chunk texts tried
Abcd == <<"a", "b", "c", "d">>

Wxyz == <<"w", "x", "y", "z">>

Sp == <<" ">>

QuestionTexts ==
    { Abcd, <<"a", "b", "c">>, <<"A", "B", "C", "D">> \o Sp \o Abcd,
      Abcd \o Sp \o Wxyz, <<"x", "a", "b", "c">> \o Sp \o Abcd, Sp \o Sp }

ChunkTexts ==
    { <<>>, Abcd, <<"A", "b", "C", "d">>, <<"x">> \o Abcd \o Sp \o Abcd,
      <<"a", "b">> \o Sp \o <<"c", "d">>, Sp \o Abcd \o Sp, Wxyz }

RelevantIdle ==
    /\ questionArg = <<>>
    /\ chunkList = <<>>
    /\ maxChunks = 3
    /\ chunkScores = <<>>
    /\ relevantChunks = <<>>
    /\ returned = <<>>
    /\ rpc = "idle"

RelevantInit ==
    /\ questionArg \in QuestionTexts
    /\ chunkList \in UNION {[1..n -> ChunkTexts] : n \in 0..MaxChunkCount}
    /\ maxChunks \in 1..MaxTop
    /\ chunkScores = <<>>
    /\ relevantChunks = <<>>
    /\ returned = <<>>
    /\ rpc = "call"

\* lines 247-255: every chunk is scored against the question words
ScoreChunks ==
    /\ rpc = "call"
    /\ chunkScores' = ChunkScores(questionArg, chunkList)
    /\ rpc' = "scored"
    /\ UNCHANGED <<questionArg, chunkList, maxChunks, relevantChunks, returned>>
    /\ UNCHANGED exceptRelevant

\* lines 258-262: sort by score, take the top, restore the document order
SelectTop ==
    /\ rpc = "scored"
    /\ relevantChunks' = RelevantChunks(chunkScores, maxChunks)
    /\ rpc' = "selected"
    /\ UNCHANGED <<questionArg, chunkList, maxChunks, chunkScores, returned>>
    /\ UNCHANGED exceptRelevant

\* line 264: the selection, or the first chunks if it is empty
ReturnRelevant ==
    /\ rpc = "selected"
    /\ returned' = IF Len(relevantChunks) > 0
                   THEN [k \in 1..Len(relevantChunks) |-> relevantChunks[k].chunk]
                   ELSE sliceFirst(chunkList, maxChunks)
    /\ rpc' = "done"
    /\ UNCHANGED <<questionArg, chunkList, maxChunks, chunkScores, relevantChunks>>
    /\ UNCHANGED exceptRelevant

\* ------------------------------------------------------------ generateMCQs
\* A completion is a sequence of tokens: fence markers (three backticks,
\* written "~~~" here), whitespace, words,
\* JSON punctuation and whole JSON values. A token is a record; obj is the
\* index into QuestionObjects of a JSON object and 0 for every other token.
Token(t) == [tok |-> t, obj |-> 0]

ObjectToken(k) == [tok |-> "{}", obj |-> k]

\* the value of a JSON number in halves, so that 1.5 can be told from 1 and 2
JsonNumber(h) == [type |-> "number", halves |-> h]

JsonString == [type |-> "string", halves |-> 0]

JsonUndefined == [type |-> "undefined", halves |-> 0]

FourOptions == [isArray |-> TRUE, items |-> <<"a", "b", "c", "d">>]

\* the JSON objects a model may put into its array: two complete questions,
\* an empty object, one with three options and correctAnswer 5, one with
\* correctAnswer "2", one with correctAnswer 1.5, one with correctAnswer -1
QuestionObjects ==
    << [question |-> "Q1", options |-> FourOptions, correctAnswer |-> JsonNumber(4)],
       [question |-> "Q2", options |-> FourOptions, correctAnswer |-> JsonNumber(0)],
       [question |-> Undefined, options |-> [isArray |-> FALSE, items |-> <<>>],
        correctAnswer |-> JsonUndefined],
       [question |-> "Q4", options |-> [isArray |-> TRUE, items |-> <<"a", "b", "c">>],
        correctAnswer |-> JsonNumber(10)],
       [question |-> "Q5", options |-> FourOptions, correctAnswer |-> JsonString],
       [question |-> "Q6", options |-> FourOptions, correctAnswer |-> JsonNumber(3)],
       [question |-> "Q7", options |-> FourOptions, correctAnswer |-> JsonNumber(-2)] >>

\* the fields of a JSON number element: every property read gives undefined
NumberElement ==
    [question |-> Undefined, options |-> [isArray |-> FALSE, items |-> <<>>],
     correctAnswer |-> JsonUndefined]

IsSpace(t) == t.tok \in Whitespace

\* String.prototype.trim on tokens
trimTokens(toks) ==
    LET solid == {k \in 1..Len(toks) : ~IsSpace(toks[k])}
    IN  IF solid = {} THEN <<>> ELSE SubSeq(toks, SetMin(solid), SetMax(solid))

\* .replace(/^```json\s*/, '') and .replace(/^```\s*/, ''): the opening fence
\* and the whitespace behind it go
StripOpeningFence(toks) ==
    LET solid == {k \in 2..Len(toks) : ~IsSpace(toks[k])}
    IN  IF solid = {} THEN <<>> ELSE SubSeq(toks, SetMin(solid), Len(toks))

\* .replace(/\s*```$/, ''): a closing fence at the very end goes, with the
\* whitespace in front of it
StripClosingFence(toks) ==
    IF toks # <<>> /\ toks[Len(toks)].tok = "~~~"
    THEN LET solid == {k \in 1..(Len(toks) - 1) : ~IsSpace(toks[k])}
         IN  IF solid = {} THEN <<>> ELSE SubSeq(toks, 1, SetMax(solid))
    ELSE toks

\* .match(/\[[\s\S]*\]/): from the first "[" to the last "]" behind it
BracketMatch(toks) ==
    LET opens == {k \in 1..Len(toks) : toks[k].tok = "["}
        closes == {k \in 1..Len(toks) : toks[k].tok = "]"}
    IN  IF opens # {} /\ closes # {} /\ SetMin(opens) < SetMax(closes)
        THEN SubSeq(toks, SetMin(opens), SetMax(closes))
        ELSE toks

\* be lines 117-131: the tolerant cleanup before JSON.parse
CleanResponse(toks) ==
    LET trimmed == trimTokens(toks)
        unfenced ==
            IF trimmed # <<>> /\ trimmed[1].tok \in {"~~~json", "~~~"}
            THEN StripClosingFence(StripOpeningFence(trimmed))
            ELSE trimmed
    IN  BracketMatch(unfenced)

\* the tokens that are whole JSON values
IsValue(t) == t.tok \in {"{}", "1", "null"}

\* JSON.parse: whitespace between tokens does not count; a text is a JSON
\* array if it is "[", values separated by ",", "]"; a single value parses
\* but is no array; anything else is a SyntaxError
JsonParse(toks) ==
    LET t == SelectSeq(toks, LAMBDA x : ~IsSpace(x))
        n == Len(t)
        inner == IF n >= 2 THEN SubSeq(t, 2, n - 1) ELSE <<>>
        wellFormed ==
            \/ inner = <<>>
            \/ /\ Len(inner) % 2 = 1
               /\ \A k \in 1..Len(inner) :
                     IF k % 2 = 1 THEN IsValue(inner[k]) ELSE inner[k].tok = ","
    IN  IF n = 1 /\ IsValue(t[1])
        THEN [ok |-> TRUE, isArray |-> FALSE, elements |-> <<>>]
        ELSE IF n >= 2 /\ t[1].tok = "[" /\ t[n].tok = "]" /\ wellFormed
        THEN [ok |-> TRUE, isArray |-> TRUE,
              elements |-> [k \in 1..((Len(inner) + 1) \div 2) |-> inner[2 * k - 1]]]
        ELSE [ok |-> FALSE, isArray |-> FALSE, elements |-> <<>>]

DefaultOptions == <<"Option A", "Option B", "Option C", "Option D">>

\* be line 147, server line 112: typeof q.correctAnswer === 'number' &&
\* q.correctAnswer >= 0 && q.correctAnswer <= 3
ValidAnswer(a) == a.type = "number" /\ a.halves >= 0 /\ a.halves <= 6

\* be lines 144-149, server lines 109-114: one element of the array made
\* into a question (index is 0-based; correctAnswer is kept in halves)
NormalizeQuestion(element, index) ==
    LET q == IF element.tok = "{}" THEN QuestionObjects[element.obj]
             ELSE NumberElement
    IN  [question |-> IF Truthy(q.question)
                      THEN [text |-> q.question, number |-> 0]
                      ELSE [text |-> "Question", number |-> index + 1],
         options |-> IF q.options.isArray /\ Len(q.options.items) = 4
                     THEN q.options.items ELSE DefaultOptions,
         correctAnswer |-> IF ValidAnswer(q.correctAnswer)
                           THEN q.correctAnswer.halves ELSE 0]

\* a parse whose trim to the requested number keeps the last questions
ParseQuestionsKeepingLast(toks, numberOfQuestions) ==
    LET parsed == JsonParse(toks)
        all == [k \in 1..Len(parsed.elements) |->
                   NormalizeQuestion(parsed.elements[k], k - 1)]
    IN  IF ~parsed.ok \/ ~parsed.isArray \/ parsed.elements = <<>>
           \/ \E k \in 1..Len(parsed.elements) : parsed.elements[k].tok = "null"
        THEN [ok |-> FALSE, questions |-> <<>>]
        ELSE [ok |-> TRUE,
              questions |-> SubSeq(all, Len(all) - Min(numberOfQuestions, Len(all)) + 1,
                                   Len(all))]

\* be lines 133-152, server lines 101-117: parse, validate, normalise and
\* trim; ok is FALSE when the try block threw (SyntaxError, "Invalid
\* response format", or a TypeError on a null element)
ParseQuestions(toks, numberOfQuestions) ==
    LET parsed == JsonParse(toks)
    IN  IF ~parsed.ok \/ ~parsed.isArray \/ parsed.elements = <<>>
           \/ \E k \in 1..Len(parsed.elements) : parsed.elements[k].tok = "null"
        THEN [ok |-> FALSE, questions |-> <<>>]
        ELSE [ok |-> TRUE,
              questions |-> sliceFirst(
                  [k \in 1..Len(parsed.elements) |->
                      NormalizeQuestion(parsed.elements[k], k - 1)],
                  numberOfQuestions)]

\* String.prototype.toLowerCase on the topics used here
LowerTopic(topic) == IF topic = "Science" THEN "science" ELSE topic

\* be lines 208-329: the keys of topicQuestions
TopicKeys == {"science", "technology", "business", "health", "education"}

\* the all-lowercase properties an object literal inherits from
\* Object.prototype: topicQuestions[key] is then a function or an object
InheritedKeys == {"constructor", "__proto__"}

PlaceholderQuestion(text, number) ==
    [question |-> [text |-> text, number |-> number],
     options |-> DefaultOptions, correctAnswer |-> 0]

\* be lines 207-358: generateFallbackQuestions; threw is TRUE when
\* questions.slice is not a function
generateFallbackQuestions(topic, numberOfQuestions) ==
    LET key == LowerTopic(topic)
    IN  IF key \in InheritedKeys
        THEN [threw |-> TRUE, questions |-> <<>>]
        ELSE [threw |-> FALSE,
              questions |-> sliceFirst(
                  IF key \in TopicKeys
                  THEN << [question |-> [text |-> "What is the scientific method?",
                                          number |-> 0],
                           options |-> <<"a", "b", "c", "d">>, correctAnswer |-> 0],
                          [question |-> [text |-> "What is photosynthesis?",
                                          number |-> 0],
                           options |-> <<"a", "b", "c", "d">>, correctAnswer |-> 0] >>
                  ELSE << [question |-> [text |-> "What is the main focus of topic?",
                                          number |-> 0],
                           options |-> <<"a", "b", "c", "d">>, correctAnswer |-> 0],
                          [question |-> [text |-> "Which is most important in topic?",
                                          number |-> 0],
                           options |-> <<"a", "b", "c", "d">>, correctAnswer |-> 0] >>,
                  numberOfQuestions)]

\* server lines 122-127: numberOfQuestions placeholder questions
PlaceholderQuestions(numberOfQuestions) ==
    [threw |-> FALSE,
     questions |-> [k \in 1..numberOfQuestions |->
                       PlaceholderQuestion("Question about topic", k)]]

\* the completions tried: arrays of up to MaxElements objects, and texts
\* around or instead of an array
ArrayOf(elements) ==
    <<Token("[")>>
    \o [k \in 1..(2 * Len(elements) - 1) |->
           IF k % 2 = 1 THEN elements[(k + 1) \div 2] ELSE Token(",")]
    \o <<Token("]")>>

WellFormedArrays ==
    { ArrayOf([k \in 1..Len(f) |-> ObjectToken(f[k])]) :
        f \in UNION {[1..m -> 1..Len(QuestionObjects)] : m \in 1..MaxElements} }

OtherCompletions ==
    { <<Token(" ")>>,
      <<Token("word")>>,
      <<Token("["), Token("]")>>,
      <<ObjectToken(1)>>,
      <<Token("["), ObjectToken(1), Token(","), Token("null"), Token("]")>>,
      <<Token("["), Token("1"), Token(","), ObjectToken(6), Token("]")>>,
      <<Token("["), ObjectToken(1), Token(",")>>,
      <<Token("~~~json"), Token("\n")>> \o ArrayOf(<<ObjectToken(1), ObjectToken(2)>>)
          \o <<Token("\n"), Token("~~~"), Token("\n")>>,
      <<Token("~~~"), Token("\n")>> \o ArrayOf(<<ObjectToken(4)>>)
          \o <<Token("\n"), Token("~~~")>>,
      <<Token("word"), Token(" ")>> \o ArrayOf(<<ObjectToken(2), ObjectToken(1)>>)
          \o <<Token(" "), Token("word")>>,
      <<Token("["), Token("1"), Token("]"), Token(" "), Token("word"), Token(" ")>>
          \o ArrayOf(<<ObjectToken(1)>>) }

Completions == WellFormedArrays \cup OtherCompletions

McqTopics == {"math", "Science", "constructor"}

NoCompletion == [response |-> <<>>, modelUsed |-> Undefined]

NoOutcome ==
    [threw |-> FALSE, questions |-> <<>>, modelUsed |-> Undefined, message |-> <<>>]

McqIdle ==
    /\ variant = "server"
    /\ params = [topic |-> "math", numberOfQuestions |-> 1]
    /\ completion = NoCompletion
    /\ questions = <<>>
    /\ outcome = NoOutcome
    /\ mpc = "idle"

\* generateMCQs is called with a topic and a number of questions
McqInit ==
    /\ variant \in {"be", "server"}
    /\ params \in [topic : McqTopics, numberOfQuestions : 1..MaxQuestions]
    /\ completion = NoCompletion
    /\ questions = <<>>
    /\ outcome = NoOutcome
    /\ mpc = "call"

\* be lines 110-113, server lines 93-96: callWithFallback returns the text of
\* the first model that answered
McqModelAnswers ==
    /\ mpc = "call"
    /\ \E toks \in Completions, m \in {AVAILABLE_MODELS[1], AVAILABLE_MODELS[2]} :
          completion' = [response |-> toks, modelUsed |-> m]
    /\ mpc' = "parse"
    /\ UNCHANGED <<variant, params, questions, outcome, exceptMcq>>

\* be lines 163-166, server lines 131-134: callWithFallback threw because
\* every model failed; the outer catch wraps the message
McqModelsFail ==
    /\ mpc = "call"
    /\ outcome' = [NoOutcome EXCEPT
                     !.threw = TRUE,
                     !.message = <<"Failed to generate MCQs: ">>
                                 \o ExhaustedMessage(<<"OpenRouter API error">>)]
    /\ mpc' = "done"
    /\ UNCHANGED <<variant, params, completion, questions, exceptMcq>>

\* be lines 115-152, server lines 99-117: the inner try block; the be copy
\* cleans the response first, the server copy parses it as it is
McqParse ==
    /\ mpc = "parse"
    /\ LET text == IF variant = "be" THEN CleanResponse(completion.response)
                   ELSE completion.response
           result == ParseQuestions(text, params.numberOfQuestions)
       IN  IF result.ok
           THEN questions' = result.questions /\ mpc' = "return"
           ELSE questions' = questions /\ mpc' = "fallback"
    /\ UNCHANGED <<variant, params, completion, outcome, exceptMcq>>

\* be lines 154-161 and 163-166, server lines 119-128: the inner catch block.
\* An exception in it reaches the outer catch, which throws.
McqFallback ==
    /\ mpc = "fallback"
    /\ LET result == IF variant = "be"
                     THEN generateFallbackQuestions(params.topic,
                                                    params.numberOfQuestions)
                     ELSE PlaceholderQuestions(params.numberOfQuestions)
       IN  IF result.threw
           THEN /\ outcome' = [NoOutcome EXCEPT
                                 !.threw = TRUE,
                                 !.message = <<"Failed to generate MCQs: ",
                                               "questions.slice is not a function">>]
                /\ questions' = questions
                /\ mpc' = "done"
           ELSE /\ questions' = result.questions
                /\ outcome' = outcome
                /\ mpc' = "return"
    /\ UNCHANGED <<variant, params, completion, exceptMcq>>

\* be line 163, server line 130: return { questions, modelUsed }
McqReturn ==
    /\ mpc = "return"
    /\ outcome' = [NoOutcome EXCEPT !.questions = questions,
                                    !.modelUsed = completion.modelUsed]
    /\ mpc' = "done"
    /\ UNCHANGED <<variant, params, completion, questions, exceptMcq>>

\* ---------------------------------------------- analyzeContent, many chunks
\* what callWithFallback gives for one chunk: it throws (every model failed),
\* or it returns the text of a model, which is a JSON object or is not
ChunkAnswers ==
    { [threw |-> TRUE, json |-> FALSE, title |-> "", summary |-> "",
       keyPoints |-> <<>>, modelUsed |-> Undefined],
      [threw |-> FALSE, json |-> FALSE, title |-> "", summary |-> "text",
       keyPoints |-> <<>>, modelUsed |-> AVAILABLE_MODELS[2]],
      [threw |-> FALSE, json |-> TRUE, title |-> "T", summary |-> "A",
       keyPoints |-> <<"p", "q">>, modelUsed |-> AVAILABLE_MODELS[1]],
      [threw |-> FALSE, json |-> TRUE, title |-> "", summary |-> "B",
       keyPoints |-> <<"r", "s">>, modelUsed |-> AVAILABLE_MODELS[2]],
      [threw |-> FALSE, json |-> TRUE, title |-> "U", summary |-> "",
       keyPoints |-> <<"q", "t">>, modelUsed |-> AVAILABLE_MODELS[1]],
      [threw |-> FALSE, json |-> TRUE, title |-> "V", summary |-> "C",
       keyPoints |-> <<"u", "v">>, modelUsed |-> AVAILABLE_MODELS[3]] }

\* a slot of the result array that no call has filled
PendingAnalysis ==
    [title |-> "", summary |-> "", keyPoints |-> <<>>, modelUsed |-> Undefined]

NoAnalysis ==
    [threw |-> FALSE, title |-> "", summary |-> <<>>, keyPoints |-> <<>>,
     modelUsed |-> Undefined, message |-> ""]

\* openai.ts lines 148-158: the value analyzeContentChunk resolves with
\* (chunkIndex is 0-based)
analyzeContentChunk(answer, chunkIndex) ==
    IF answer.json
    THEN [title |-> answer.title, summary |-> answer.summary,
          keyPoints |-> answer.keyPoints, modelUsed |-> answer.modelUsed]
    ELSE [title |-> IF chunkIndex = 0 THEN "Extracted Content" ELSE "",
          summary |-> answer.summary \o "...",
          keyPoints |-> <<"Analysis completed">>,
          modelUsed |-> answer.modelUsed]

\* a result array filled in the order in which the calls settle
ResultSlotByArrival(index, arrivals) == Len(arrivals) + 1

\* openai.ts lines 210-214: Promise.all puts the value of each promise at the
\* index of that promise, whenever it settles
ResultSlot(index, arrivals) == index

RECURSIVE JoinFrom(_, _)
RECURSIVE UniqueFrom(_, _)
RECURSIVE FlatKeyPoints(_, _)

\* Array.prototype.join(' ')
JoinFrom(texts, k) ==
    IF k > Len(texts) THEN <<>>
    ELSE IF k = Len(texts) THEN <<texts[k]>>
    ELSE <<texts[k], " ">> \o JoinFrom(texts, k + 1)

\* Array.from(new Set(points)): the first occurrence of each point, in order
UniqueFrom(points, k) ==
    IF k > Len(points) THEN <<>>
    ELSE IF \E j \in 1..(k - 1) : points[j] = points[k]
    THEN UniqueFrom(points, k + 1)
    ELSE <<points[k]>> \o UniqueFrom(points, k + 1)

\* flatMap(a => a.keyPoints || [])
FlatKeyPoints(analyses, k) ==
    IF k > Len(analyses) THEN <<>>
    ELSE analyses[k].keyPoints \o FlatKeyPoints(analyses, k + 1)

\* openai.ts lines 217-238: the chunk analyses combined
CombineAnalyses(analyses) ==
    LET all == [k \in 1..Len(analyses) |-> analyses[k].summary]
        summaries == SelectSeq(all, LAMBDA t : t # "")
    IN  [NoAnalysis EXCEPT
           !.title = IF analyses[1].title # "" THEN analyses[1].title
                     ELSE "Extracted Content",
           !.summary = IF Len(summaries) > 1
                       THEN <<"This document covers: ">> \o JoinFrom(summaries, 1)
                       ELSE IF Len(summaries) = 1 THEN <<summaries[1]>>
                       ELSE <<"Content analyzed in multiple parts">>,
           !.keyPoints = sliceFirst(UniqueFrom(FlatKeyPoints(analyses, 1), 1), 5),
           !.modelUsed = analyses[1].modelUsed]

JoinIdle ==
    /\ chunkAnswers = <<>>
    /\ chunkAnalyses = <<>>
    /\ completions = <<>>
    /\ analysis = NoAnalysis
    /\ apc = "idle"

\* openai.ts lines 209-213: analyzeContent has split the content into two or
\* more chunks and started one analyzeContentChunk per chunk
JoinInit ==
    /\ chunkAnswers \in UNION {[1..n -> ChunkAnswers] : n \in 2..MaxParts}
    /\ chunkAnalyses = [k \in 1..Len(chunkAnswers) |-> PendingAnalysis]
    /\ completions = <<>>
    /\ analysis = NoAnalysis
    /\ apc = "fanout"

Settled(i) == \E k \in 1..Len(completions) : completions[k] = i

\* openai.ts lines 144-158: the call for chunk i returns; its value goes into
\* the result array. Calls still running after a rejection run to their end.
ChunkFulfilled(i) ==
    /\ apc \in {"fanout", "failed"}
    /\ ~Settled(i)
    /\ ~chunkAnswers[i].threw
    /\ chunkAnalyses' =
          [chunkAnalyses EXCEPT ![ResultSlot(i, completions)] =
              analyzeContentChunk(chunkAnswers[i], i - 1)]
    /\ completions' = Append(completions, i)
    /\ UNCHANGED <<chunkAnswers, analysis, apc, exceptJoin>>

\* openai.ts lines 144-146, 210 and 239-242: the call for chunk i throws;
\* Promise.all rejects at the first rejection and analyzeContent throws
ChunkRejected(i) ==
    /\ apc \in {"fanout", "failed"}
    /\ ~Settled(i)
    /\ chunkAnswers[i].threw
    /\ completions' = Append(completions, i)
    /\ IF apc = "fanout"
       THEN /\ analysis' = [NoAnalysis EXCEPT
                              !.threw = TRUE,
                              !.message = "Failed to analyze content with AI"]
            /\ apc' = "failed"
       ELSE UNCHANGED <<analysis, apc>>
    /\ UNCHANGED <<chunkAnswers, chunkAnalyses, exceptJoin>>

\* openai.ts lines 210-238: every call has returned; Promise.all resolves and
\* the results are combined
JoinCombine ==
    /\ apc = "fanout"
    /\ \A i \in 1..Len(chunkAnswers) : Settled(i)
    /\ analysis' = CombineAnalyses(chunkAnalyses)
    /\ apc' = "done"
    /\ UNCHANGED <<chunkAnswers, chunkAnalyses, completions, exceptJoin>>

\* ------------------------------------------------------- specifications
\* one call of splitContentIntoChunks on any text and parameters
InitChunk == ChunkInit /\ FallbackIdle /\ ServerIdle /\ RelevantIdle /\ McqIdle /\ JoinIdle

ChunkNext == SplitEntry \/ SplitLoopIter \/ SplitLoopExit

SpecChunk == InitChunk /\ [][ChunkNext]_vars

\* one call of callWithFallback under any credentials and endpoint behaviour
InitFallback == FallbackInit /\ ChunkIdle /\ ServerIdle /\ RelevantIdle /\ McqIdle /\ JoinIdle

FallbackNext == \E net \in NetOutcomes : TryNextModel(net)

SpecFallback == InitFallback /\ [][FallbackNext]_vars

\* one call of findRelevantChunks on any question, chunks and maxChunks
InitRelevant == RelevantInit /\ ChunkIdle /\ FallbackIdle /\ ServerIdle /\ McqIdle /\ JoinIdle

RelevantNext == ScoreChunks \/ SelectTop \/ ReturnRelevant

SpecRelevant == InitRelevant /\ [][RelevantNext]_vars

\* the operations of MemStorage called in any order on a fresh store
InitStore == ServerIdle /\ ChunkIdle /\ FallbackIdle /\ RelevantIdle /\ McqIdle /\ JoinIdle

StoreNext ==
    StoreCreateSession \/ StoreGetSession \/ StoreCreateMessage \/ StoreGetMessages

SpecStore == InitStore /\ [][StoreNext]_vars

\* the server: requests arrive and their handlers interleave at every await
InitMcq ==
    McqInit /\ ChunkIdle /\ FallbackIdle /\ ServerIdle /\ RelevantIdle /\ JoinIdle

McqNext ==
    \/ McqModelAnswers
    \/ McqModelsFail
    \/ McqParse
    \/ McqFallback
    \/ McqReturn

SpecMcq == InitMcq /\ [][McqNext]_vars

InitJoin ==
    JoinInit /\ ChunkIdle /\ FallbackIdle /\ ServerIdle /\ RelevantIdle /\ McqIdle

JoinNext ==
    \/ \E i \in 1..Len(chunkAnswers) : ChunkFulfilled(i)
    \/ \E i \in 1..Len(chunkAnswers) : ChunkRejected(i)
    \/ JoinCombine

SpecJoin == InitJoin /\ [][JoinNext]_vars

Init == ServerInit /\ ChunkIdle /\ RelevantIdle /\ McqIdle /\ JoinIdle

Next ==
    \/ ReceiveAsk \/ ReceiveTopic \/ ReceiveUrl \/ ReceivePdf
    \/ \E i \in 1..Len(reqs) : AskStart(i)
    \/ \E i \in 1..Len(reqs) : AskSaveUser(i)
    \/ \E i \in 1..Len(reqs) : AskHistory(i)
    \/ \E i \in 1..Len(reqs) : AskAnswer(i)
    \/ \E i \in 1..Len(reqs) : ModelStep(i)
    \/ \E i \in 1..Len(reqs) : AskSaveAssistant(i)
    \/ \E i \in 1..Len(reqs) : AskRespond(i)
    \/ \E i \in 1..Len(reqs) : AskFailed(i)
    \/ \E i \in 1..Len(reqs) : TopicStart(i)
    \/ \E i \in 1..Len(reqs) : UrlStart(i)
    \/ \E i \in 1..Len(reqs) : UrlExtracted(i)
    \/ \E i \in 1..Len(reqs) : PdfStart(i)
    \/ \E i \in 1..Len(reqs) : PdfExtracted(i)
    \/ \E i \in 1..Len(reqs) : AnalysisDone(i)
    \/ \E i \in 1..Len(reqs) : AnalysisFailed(i)
    \/ \E i \in 1..Len(reqs) : SessionRespond(i)
    \/ \E i \in 1..Len(reqs) : HandlerReturns(i)

Spec == Init /\ [][Next]_vars

\* ------------------------------------------------ chunking: window geometry
\* position p lies in the i-th window carved
InWindow(p, i) == windows[i][1] <= p /\ p < windows[i][2]

\* position p lies in the i-th chunk, i.e. in what slice and trim keep of the
\* i-th window
InChunk(p, i) ==
    LET span == TrimSpan(content, SliceSpan(content, windows[i][1], windows[i][2]))
    IN  span[1] <= p /\ p < span[2]

Positions == 0..(Len(content) - 1)

\* the windows carved so far are laid out without a gap
NoGapLayout ==
    /\ windows[1][1] = 0
    /\ \A i \in 2..Len(windows) :
          /\ windows[i][1] = windows[i - 1][2] - overlap
          /\ windows[i][1] <= windows[i - 1][2]

\* C1 (as claimed): for text longer than maxChunkSize and overlap smaller
\* than maxChunkSize, every loop iteration leaves the window start strictly
\* larger than it found it, so the loop exits after finitely many chunks.
C1_StartStrictlyIncreases ==
    [][(cpc = "loop" /\ windows' # windows) => start' > start]_vars

\* C10 (as claimed): for text longer than maxChunkSize the first window
\* starts at 0, each later window starts exactly overlap characters before
\* the previous window's end, the last window ends at the end of the text,
\* and every character position lies in at least one chunk.
C10_EveryPositionInAChunk ==
    (Len(content) > maxChunkSize /\ windows # <<>>) =>
        /\ NoGapLayout
        /\ cpc = "done" =>
              /\ windows[Len(windows)][2] = Len(content)
              /\ \A p \in Positions : \E i \in 1..Len(windows) : InChunk(p, i)

\* C10 (amended): same layout; once a window has ended at the end of the
\* text (which has happened whenever the loop has exited) every character
\* position lies in at least one window.  Chunks are the windows trimmed, so
\* the positions a chunk drops are whitespace only.
C10_EveryPositionInAWindow ==
    (Len(content) > maxChunkSize /\ windows # <<>>) =>
        /\ NoGapLayout
        /\ cpc = "done" => windows[Len(windows)][2] = Len(content)
        /\ windows[Len(windows)][2] = Len(content) =>
              \A p \in Positions : \E i \in 1..Len(windows) : InWindow(p, i)
        /\ \A i \in 1..Len(windows) : \A p \in Positions :
              (InWindow(p, i) /\ ~InChunk(p, i) /\ windows[i][1] >= 0)
                  => CharAt(content, p) \in Whitespace

\* C10 witness: three windows, one cut at a sentence or paragraph boundary
\* short of the full size, the latest ending at the end of the text, and a
\* whitespace character that trimming removed from a chunk.
C10_Witness ==
    /\ Len(content) > maxChunkSize
    /\ Len(windows) >= 3
    /\ overlap > 0
    /\ windows[Len(windows)][2] = Len(content)
    /\ \E i \in 1..Len(windows) :
          /\ windows[i][2] < Len(content)
          /\ windows[i][2] < windows[i][1] + maxChunkSize
    /\ \E i \in 1..Len(windows) : \E p \in Positions : InWindow(p, i) /\ ~InChunk(p, i)

\* ------------------------------------------------ fallback: the outcome
\* sub occurs in s as a contiguous run
Contains(s, sub) == \E i \in 0..Len(s) : MatchesAt(s, sub, i)

\* the attempts made so far went through the candidate list in order
AttemptsInListOrder ==
    /\ Len(attempts) <= Len(call.modelsToTry)
    /\ \A j \in 1..Len(attempts) : attempts[j].model = call.modelsToTry[j]

\* the position of the first attempt that did not throw, 0 if all threw
FirstSuccess ==
    LET ok == {j \in 1..Len(attempts) : ~attempts[j].threw}
    IN  IF ok = {} THEN 0 ELSE SetMin(ok)

\* C2: callWithFallback returns the response of the first candidate in list
\* order whose request succeeds, reports that candidate as modelUsed, and
\* none of the earlier failures (HTTP status, network error, missing
\* credential) surfaces as an exception.
C2_FirstSuccessIsReturned ==
    /\ AttemptsInListOrder
    /\ FirstSuccess # 0 =>
          /\ call.status = "returned"
          /\ FirstSuccess = Len(attempts)
          /\ call.modelUsed = call.modelsToTry[FirstSuccess]
          /\ call.response = attempts[FirstSuccess].net.text
    /\ call.status = "returned" => FirstSuccess # 0

\* C2 witness: only the 3rd candidate succeeds, after a missing credential
\* and a failed request, and it is the model reported.
C2_Witness ==
    /\ call.status = "returned"
    /\ Len(attempts) = 3
    /\ \E j \in 1..2 : ~attempts[j].sent
    /\ \E j \in 1..2 : attempts[j].net.kind \in {"http", "neterr"}
    /\ call.modelUsed = call.modelsToTry[3]

\* C3: callWithFallback throws the all-models-failed error if and only if
\* every candidate of its list has failed, and the error's message contains
\* the message of the last candidate's failure.
C3_ExhaustedIffAllFailed ==
    LET allFailed == /\ Len(attempts) = Len(call.modelsToTry)
                     /\ \A j \in 1..Len(attempts) : attempts[j].threw
    IN  /\ call.status = "thrown" <=> allFailed
        /\ call.status = "thrown" =>
              /\ Contains(call.error, <<"All models failed. Last error: ">>)
              /\ attempts[Len(attempts)].message # <<>>
              /\ Contains(call.error, attempts[Len(attempts)].message)

\* C3 witness: every candidate failed, not all in the same way, and the
\* error was thrown.
C3_Witness ==
    /\ call.status = "thrown"
    /\ Len(attempts) = Len(call.modelsToTry)
    /\ \E j, k \in 1..Len(attempts) : attempts[j].message # attempts[k].message
    /\ attempts[1].message # attempts[Len(attempts)].message

\* C4 (as claimed): every successful result carries a non-empty text; a
\* candidate whose completion is empty or missing is not returned.
C4_SuccessIsNonEmpty ==
    call.status = "returned" => call.response # <<>>

\* C4 (amended): callWithFallback returns the first candidate whose request
\* succeeds whether or not its completion is empty: the text returned is the
\* completion, or the empty string when the completion is empty or missing,
\* and it is paired with the model that produced it.
C4_SuccessMayBeEmpty ==
    /\ \A j \in 1..Len(attempts) :
          attempts[j].net.kind \in {"empty", "text"} =>
              /\ call.status = "returned"
              /\ j = Len(attempts)
              /\ call.modelUsed = attempts[j].model
              /\ call.response = (IF attempts[j].net.kind = "text"
                                  THEN attempts[j].net.text ELSE <<>>)
    /\ call.status = "returned" =>
          attempts[Len(attempts)].net.kind \in {"empty", "text"}

\* C4 witness: a later candidate answered with an empty completion and was
\* returned as the result.
C4_Witness ==
    /\ call.status = "returned"
    /\ Len(attempts) >= 2
    /\ attempts[Len(attempts)].net.kind = "empty"
    /\ call.response = <<>>
    /\ call.modelUsed = attempts[Len(attempts)].model

\* the position of a configured model in the default priority order
Priority(m) == CHOOSE i \in 1..Len(AVAILABLE_MODELS) : AVAILABLE_MODELS[i] = m

\* a preferred model is given: the argument is a non-empty string
Given(p) == p # Undefined /\ p # ""

\* C5: with a preferred model the candidate list is that model followed by
\* the configured models in default priority order without the preferred
\* one, so no identifier occurs twice; without one it is exactly the
\* configured models in default priority order.
C5_CandidateList ==
    LET list == call.modelsToTry
        n == Len(list)
    IN  call.status # "idle" =>
          /\ \A i, j \in 1..n : i # j => list[i] # list[j]
          /\ Given(preferredModel) =>
                /\ list[1] = preferredModel
                /\ {list[i] : i \in 2..n} = Range(AVAILABLE_MODELS) \ {preferredModel}
                /\ \A i, j \in 2..n : i < j => Priority(list[i]) < Priority(list[j])
          /\ ~Given(preferredModel) =>
                /\ n = Len(AVAILABLE_MODELS)
                /\ \A i \in 1..n : list[i] = AVAILABLE_MODELS[i]

\* C5 witness: a configured model other than the first is preferred, and the
\* call has gone past it into the rest of the list.
C5_Witness ==
    /\ preferredModel \in Range(AVAILABLE_MODELS)
    /\ preferredModel # AVAILABLE_MODELS[1]
    /\ call.modelsToTry[1] = preferredModel
    /\ Len(attempts) >= 3

\* ------------------------------------------------ chunking seen from callers
\* splitContentIntoChunks has returned only if the text fits one chunk or
\* there is no overlap: what SplitReturns assumes of the loop
SplitReturnsOnlyWithoutOverlap ==
    cpc = "done" => (Len(content) <= maxChunkSize \/ overlap <= 0)

\* ------------------------------------------------------- server: requests
Requests == 1..Len(reqs)

\* the stored message with the given identifier
MessageById(id) == messages[CHOOSE k \in 1..Len(messages) : messages[k].id = id]

\* role and content of each message of a list
RoleTagged(list) ==
    [k \in 1..Len(list) |-> [role |-> list[k].role, content |-> list[k].content]]

\* the transcript of the session of request i as it was before the request
\* saved its own question
EarlierMessages(i) ==
    SelectSeq(getMessagesBySessionId(reqs[i].sessionId),
              LAMBDA m : m.id < reqs[i].userMessage)

\* C6 (as claimed): when an extract-pdf request that uploaded a file has
\* completed, on whatever path, its temporary file is gone from uploads/.
C6_TempFileDeleted ==
    \A i \in Requests :
        (reqs[i].kind = "pdf" /\ reqs[i].file # 0
            /\ reqs[i].pc \in {"responded", "done"})
            => reqs[i].file \notin uploads

\* C7 (as claimed): every assistant message stored by the ask route carries
\* the modelUsed that callWithFallback reported for its answer; user
\* messages carry none.
C7_AssistantCarriesModel ==
    /\ \A i \in Requests :
          (reqs[i].kind = "ask" /\ reqs[i].assistantMessage # 0) =>
              MessageById(reqs[i].assistantMessage).modelUsed = reqs[i].call.modelUsed
    /\ \A k \in 1..Len(messages) :
          messages[k].role = "user" => messages[k].modelUsed = Null

\* C8 (as claimed): when a question is asked on a session that already has
\* messages, the message list sent to the model holds those earlier
\* messages in chronological order between the system prompt and the new
\* question.
C8_HistorySentToModel ==
    \A i \in Requests :
        (reqs[i].kind = "ask" /\ reqs[i].call.status # "idle"
            /\ EarlierMessages(i) # <<>>) =>
            LET sent == reqs[i].call.messages
            IN  /\ Len(sent) >= 2
                /\ sent[1].role = "system"
                /\ sent[Len(sent)] = [role |-> "user", content |-> trim(reqs[i].question)]
                /\ Contains(SubSeq(sent, 2, Len(sent) - 1),
                            RoleTagged(EarlierMessages(i)))

\* request i was answered after every candidate model had failed
ModelsExhausted(i) == reqs[i].pc = "responded" /\ reqs[i].call.status = "thrown"

\* C9 (as claimed): when every candidate model fails during an analysis or
\* ask request, the response has status 500 and its message embeds the
\* message of the last underlying model failure.
C9_MessageEmbedsLastFailure ==
    \A i \in Requests :
        ModelsExhausted(i) =>
            /\ reqs[i].status = 500
            /\ Contains(reqs[i].message, reqs[i].call.lastError)

\* C9 (amended): such a response has status 500 and the fixed message of the
\* wrapper that caught the failure, "Failed to analyze content with AI" or
\* "Failed to get AI response"; the error of callWithFallback, which names
\* the last underlying failure, is not part of it.
C9_MessageIsGeneric ==
    \A i \in Requests :
        ModelsExhausted(i) =>
            /\ reqs[i].status = 500
            /\ reqs[i].message =
                  (IF reqs[i].kind = "ask"
                   THEN <<"Failed to get AI response">>
                   ELSE <<"Failed to analyze content with AI">>)
            /\ Contains(reqs[i].call.error, reqs[i].call.lastError)
            /\ ~Contains(reqs[i].message, reqs[i].call.lastError)

\* C9 witness: an ask request was answered 500 after all its candidates had
\* failed, the last with a failed request.
C9_Witness ==
    \E i \in Requests :
        /\ ModelsExhausted(i)
        /\ reqs[i].kind = "ask"
        /\ reqs[i].status = 500
        /\ reqs[i].call.i = Len(reqs[i].call.modelsToTry) + 1
        /\ Contains(reqs[i].call.lastError, <<"OpenRouter API error (">>)

\* ------------------------------------------------ chunking: the chunks
\* C11 (as claimed): every chunk splitContentIntoChunks returns is at most
\* maxChunkSize characters long, wherever the terminators and paragraph
\* breaks of the text are.
C11_ChunkWithinMax ==
    cpc = "done" => \A k \in 1..Len(chunks) : Len(chunks[k]) <= maxChunkSize

\* C12 (as claimed): a text of at most maxChunkSize characters comes back as
\* exactly one chunk, which is the text trimmed of leading and trailing
\* whitespace.
C12_ShortTextTrimmed ==
    (cpc = "done" /\ Len(content) <= maxChunkSize) => chunks = <<trim(content)>>

\* C12 (amended): such a text comes back as exactly one chunk, which is the
\* text itself, leading and trailing whitespace included.
C12_ShortTextReturnedWhole ==
    (cpc = "done" /\ Len(content) <= maxChunkSize) => chunks = <<content>>

\* C12 witness: a short text with whitespace at an edge was returned
C12_Witness ==
    /\ cpc = "done"
    /\ Len(content) <= maxChunkSize
    /\ Len(chunks) = 1
    /\ trim(content) # content

\* ------------------------------------------------ relevance selection
\* every chunk scored zero
AllScoresZero == \A k \in 1..Len(chunkScores) : chunkScores[k].score = 0

\* the 0-based indices of the chunks selected
SelectedIndices == {relevantChunks[k].index : k \in 1..Len(relevantChunks)}

\* C13: for a non-empty chunk list and N >= 1, when every score is zero (as
\* it is when the question has no word longer than 3 characters) the call
\* returns exactly the first min(N, number of chunks) chunks in their
\* original order, and its result is never empty.
C13_ZeroScoresGiveFirstChunks ==
    (rpc = "done" /\ Len(chunkList) > 0) =>
        /\ QuestionWords(questionArg) = <<>> => AllScoresZero
        /\ AllScoresZero =>
              /\ Len(returned) = Min(maxChunks, Len(chunkList))
              /\ \A k \in 1..Len(returned) : returned[k] = chunkList[k]
        /\ returned # <<>>

\* C13 witness: a question with a long word that occurs in none of three
\* different chunks; fewer chunks are asked for than there are
C13_Witness ==
    /\ rpc = "done"
    /\ QuestionWords(questionArg) # <<>>
    /\ AllScoresZero
    /\ Len(chunkList) = 3 /\ maxChunks = 2
    /\ Cardinality(Range(chunkList)) = 3
    /\ returned = SubSeq(chunkList, 1, 2)

\* C14: the call returns min(N, number of chunks) chunks; no chunk left out
\* scores strictly higher than a chunk selected; the chunks returned are in
\* their original document order, not in score order.
C14_TopSelectionInDocumentOrder ==
    (rpc = "done" /\ Len(chunkList) > 0) =>
        /\ Len(returned) = Min(maxChunks, Len(chunkList))
        /\ Len(relevantChunks) = Len(returned)
        /\ \A u \in 1..Len(chunkScores) :
              (chunkScores[u].index \notin SelectedIndices) =>
                  \A k \in 1..Len(relevantChunks) :
                      chunkScores[u].score <= relevantChunks[k].score
        /\ \A k \in 1..Len(relevantChunks) :
              /\ relevantChunks[k] = chunkScores[relevantChunks[k].index + 1]
              /\ returned[k] = chunkList[relevantChunks[k].index + 1]
        /\ \A j, k \in 1..Len(relevantChunks) :
              j < k => relevantChunks[j].index < relevantChunks[k].index

\* C14 witness: two of three chunks were selected, the first chunk was left
\* out and the later of the two selected scores higher than the earlier
C14_Witness ==
    /\ rpc = "done"
    /\ Len(chunkList) = 3 /\ maxChunks = 2
    /\ SelectedIndices = {1, 2}
    /\ chunkScores[1].score < chunkScores[2].score
    /\ chunkScores[2].score < chunkScores[3].score
    /\ returned = <<chunkList[2], chunkList[3]>>

\* ------------------------------------------------ the store: transcripts
LogEntries == 1..Len(storeLog)

\* the entries of the log that called the given operation
Calls(op) == {k \in LogEntries : storeLog[k].op = op}

\* list starts with the elements of prefix
IsPrefix(prefix, list) ==
    /\ Len(prefix) <= Len(list)
    /\ \A k \in 1..Len(prefix) : prefix[k] = list[k]

\* the position of the message with the given identifier in list, 0 if none
PositionOf(list, id) ==
    IF \E k \in 1..Len(list) : list[k].id = id
    THEN CHOOSE k \in 1..Len(list) : list[k].id = id
    ELSE 0

\* C15: if message A is appended to a session and then message B, whatever
\* is appended to other sessions in between and also when both get the same
\* timestamp, every later getMessagesBySessionId returns A before B, and
\* the timestamps of the list returned are non-decreasing.
C15_AppendOrderKept ==
    \A r \in Calls("getMessagesBySessionId") :
        LET list == storeLog[r].result
        IN  /\ \A a, b \in Calls("createMessage") :
                  (a < b /\ b < r /\ storeLog[a].arg = storeLog[r].arg
                      /\ storeLog[b].arg = storeLog[r].arg) =>
                      /\ PositionOf(list, storeLog[a].result[1].id) > 0
                      /\ PositionOf(list, storeLog[a].result[1].id)
                            < PositionOf(list, storeLog[b].result[1].id)
            /\ \A k \in 1..(Len(list) - 1) :
                  list[k].timestamp <= list[k + 1].timestamp

\* C15 witness: A and B were appended to a session at the same timestamp
\* with an append to another session between them, and were read back
C15_Witness ==
    \E a, x, b \in Calls("createMessage") :
    \E r \in Calls("getMessagesBySessionId") :
        /\ a < x /\ x < b /\ b < r
        /\ storeLog[a].arg = storeLog[r].arg /\ storeLog[b].arg = storeLog[r].arg
        /\ storeLog[x].arg # storeLog[r].arg
        /\ storeLog[a].result[1].timestamp = storeLog[b].result[1].timestamp
        /\ storeLog[r].result = <<storeLog[a].result[1], storeLog[b].result[1]>>

\* C16: messages are append-only: every transcript returned for a session is
\* a prefix of every transcript returned later for that session and of the
\* transcript a read would return now; no message is removed, reordered or
\* changed.
C16_TranscriptsOnlyGrow ==
    /\ \A j, k \in Calls("getMessagesBySessionId") :
          (j < k /\ storeLog[j].arg = storeLog[k].arg) =>
              IsPrefix(storeLog[j].result, storeLog[k].result)
    /\ \A j \in Calls("getMessagesBySessionId") :
          IsPrefix(storeLog[j].result, getMessagesBySessionId(storeLog[j].arg))
    /\ \A a \in Calls("createMessage") :
          \E k \in 1..Len(messages) : messages[k] = storeLog[a].result[1]

\* C16 witness: a session's transcript was read, a message was appended to
\* it and it was read again
C16_Witness ==
    \E j, k \in Calls("getMessagesBySessionId") :
    \E a \in Calls("createMessage") :
        /\ j < a /\ a < k
        /\ storeLog[j].arg = storeLog[k].arg /\ storeLog[a].arg = storeLog[k].arg
        /\ storeLog[j].result # <<>>
        /\ Len(storeLog[k].result) = Len(storeLog[j].result) + 1

\* ------------------------------------------------ the store: sessions
\* C19: fetching a session by the identifier its creation returned yields
\* the record created: same topic, same source kind, content null exactly
\* for a topic-only session; the identifier differs from every other
\* session's; creations in between do not change what the fetch returns.
C19_FetchReturnsCreated ==
    /\ \A c \in Calls("createContentSession") :
       \A f \in Calls("getContentSession") :
          (c < f /\ storeLog[f].arg = storeLog[c].result[1].id) =>
              LET created == storeLog[c].result[1]
                  fetched == storeLog[f].result[1]
              IN  /\ fetched = created
                  /\ fetched.topic = created.topic
                  /\ fetched.sourceType = created.sourceType
                  /\ (fetched.extractedContent = MissingContent)
                        <=> (fetched.sourceType = "topic-only")
    /\ \A c, d \in Calls("createContentSession") :
          c # d => storeLog[c].result[1].id # storeLog[d].result[1].id

\* C19 witness: a session with content was created and fetched, a topic-only
\* session was created, and the first was fetched again
C19_Witness ==
    \E c, d \in Calls("createContentSession") :
    \E f, g \in Calls("getContentSession") :
        /\ c < f /\ f < d /\ d < g
        /\ storeLog[c].result[1].sourceType = "pdf"
        /\ storeLog[d].result[1].sourceType = "topic-only"
        /\ storeLog[f].arg = storeLog[c].result[1].id
        /\ storeLog[g].arg = storeLog[c].result[1].id
        /\ storeLog[g].result = storeLog[c].result

\* ------------------------------------------------ server: concurrent asks
\* every request received has completed
AllCompleted == reqs # <<>> /\ \A i \in Requests : reqs[i].pc = "done"

\* the ask requests
Asks == {i \in Requests : reqs[i].kind = "ask"}

\* the number of stored messages with the given identifier
Copies(id) == Cardinality({k \in 1..Len(messages) : messages[k].id = id})

\* the message identifiers the ask requests on a session recorded
MessagesOfAsks(sessionId) ==
    {reqs[i].userMessage : i \in {j \in Asks : reqs[j].sessionId = sessionId}}
    \cup {reqs[i].assistantMessage : i \in {j \in Asks : reqs[j].sessionId = sessionId}}

\* C17: when ask requests on one session interleave at their awaits in any
\* order, no append is lost, overwritten or duplicated: once all requests
\* have completed the transcript holds each request's user message exactly
\* once and each successful request's assistant message exactly once, and
\* nothing else.
C17_NoAppendLost ==
    AllCompleted =>
        /\ \A i \in Asks :
              LET transcript == getMessagesBySessionId(reqs[i].sessionId)
                  inTranscript(id) ==
                      Cardinality({k \in 1..Len(transcript) : transcript[k].id = id})
              IN  /\ reqs[i].status \in {200, 500} => reqs[i].userMessage # 0
                  /\ reqs[i].status = 200 => reqs[i].assistantMessage # 0
                  /\ reqs[i].userMessage # 0 =>
                        /\ Copies(reqs[i].userMessage) = 1
                        /\ inTranscript(reqs[i].userMessage) = 1
                        /\ MessageById(reqs[i].userMessage).role = "user"
                  /\ reqs[i].assistantMessage # 0 =>
                        /\ Copies(reqs[i].assistantMessage) = 1
                        /\ inTranscript(reqs[i].assistantMessage) = 1
                        /\ MessageById(reqs[i].assistantMessage).role = "assistant"
        /\ \A i, j \in Asks :
              (i # j /\ reqs[i].userMessage # 0) =>
                  /\ reqs[i].userMessage # reqs[j].userMessage
                  /\ reqs[i].userMessage # reqs[j].assistantMessage
        /\ \A k \in 1..Len(messages) :
              messages[k].id \in MessagesOfAsks(messages[k].sessionId) \ {0}

\* C17 witness: two successful asks on one session have completed; the
\* second saved its question between the first's question and answer
C17_Witness ==
    /\ AllCompleted
    /\ \E i, j \in Asks :
          /\ i # j
          /\ reqs[i].sessionId = reqs[j].sessionId
          /\ reqs[i].status = 200 /\ reqs[j].status = 200
          /\ reqs[i].userMessage < reqs[j].userMessage
          /\ reqs[j].userMessage < reqs[i].assistantMessage
          /\ Len(getMessagesBySessionId(reqs[i].sessionId)) = 4

\* ------------------------------------------------ server: stored sessions
Present(x) == x # Null

\* how many of the three source descriptions fit a session
SourcesFitting(session) ==
    (IF Present(session.url) THEN 1 ELSE 0)
    + (IF Present(session.fileName) THEN 1 ELSE 0)
    + (IF session.sourceType = "topic-only" /\ ~Present(session.url)
             /\ ~Present(session.fileName) THEN 1 ELSE 0)

\* C18: in every reachable state every stored session fits exactly one of
\* {url present, fileName present, topic-only with neither}, and its
\* extractedContent is null exactly when its source kind is topic-only.
C18_SessionShape ==
    \A k \in 1..Len(contentSessions) :
        /\ SourcesFitting(contentSessions[k]) = 1
        /\ (contentSessions[k].extractedContent = MissingContent)
              <=> (contentSessions[k].sourceType = "topic-only")

\* C18 witness: the store holds a session from each creation endpoint
C18_Witness ==
    {contentSessions[k].sourceType : k \in 1..Len(contentSessions)}
        = {"url", "pdf", "topic-only"}

\* ------------------------------------------------ server: validation
\* request i lacks a field its route requires
LacksRequiredField(i) ==
    LET r == reqs[i]
    IN  CASE r.kind = "url" -> r.url = Undefined \/ r.topic = Undefined
          [] r.kind = "pdf" -> r.file = 0 \/ r.topic = Undefined
          [] r.kind = "topic" -> r.topic = Undefined
          [] r.kind = "ask" -> r.question = UndefinedText \/ trim(r.question) = <<>>

\* C20: a request that lacks a required field is answered 400 before any
\* URL fetch, PDF text extraction or model request is attempted and
\* without creating a session or a message.
C20_RejectedBeforeAnyCall ==
    \A i \in Requests :
        (reqs[i].pc # "done" /\ LacksRequiredField(i)) =>
            /\ reqs[i].pc \in {"start", "responded"}
            /\ reqs[i].pc = "responded" => reqs[i].status = 400
            /\ reqs[i].tempFilePath = 0
            /\ reqs[i].extractedContent = MissingContent
            /\ reqs[i].call = NoCall
            /\ reqs[i].created = 0
            /\ reqs[i].userMessage = 0 /\ reqs[i].assistantMessage = 0

\* C20 witness: an extract-pdf request with a file and no topic, and an ask
\* with a blank question on an existing session, were both answered 400
C20_Witness ==
    \E i, j \in Requests :
        /\ reqs[i].kind = "pdf" /\ reqs[i].file # 0 /\ reqs[i].topic = Undefined
        /\ reqs[i].pc = "responded" /\ reqs[i].status = 400
        /\ reqs[j].kind = "ask" /\ reqs[j].question = <<" ">>
        /\ reqs[j].sessionId # 0
        /\ reqs[j].pc = "responded" /\ reqs[j].status = 400

\* ------------------------------------------------------------ generateMCQs
\* generateMCQs has returned a question list
McqReturned == mpc = "done" /\ ~outcome.threw

\* the number of elements of a completion built by ArrayOf, and its j-th one
ArrayLength(toks) == (Len(toks) - 1) \div 2

ArrayElement(toks, j) == toks[2 * j]

\* C21: every question generateMCQs returns, parsed or placeholder, has
\* exactly four options and a correctAnswer that is one of the integers
\* 0, 1, 2, 3 (0, 2, 4, 6 in halves), whatever the model's JSON held.
C21_FourOptionsIntegerAnswer ==
    McqReturned =>
        \A k \in 1..Len(outcome.questions) :
            /\ Len(outcome.questions[k].options) = 4
            /\ outcome.questions[k].correctAnswer \in {0, 2, 4, 6}

\* the returned question q was made from element e, the i-th of the array
MadeFrom(q, e, i) ==
    LET source == QuestionObjects[e.obj]
    IN  IF source.question # Undefined
        THEN q.question = [text |-> source.question, number |-> 0]
        ELSE q.question = [text |-> "Question", number |-> i]

\* C22: when the model returns a well-formed JSON array of k >= 1 question
\* objects and n >= 1 questions were requested, generateMCQs does not throw
\* and returns min(k, n) questions, the first min(k, n) in the model's order.
C22_FirstMinOfAvailableAndRequested ==
    (mpc = "done" /\ completion.response \in WellFormedArrays) =>
        LET k == ArrayLength(completion.response)
            n == params.numberOfQuestions
        IN  /\ ~outcome.threw
            /\ Len(outcome.questions) = Min(k, n)
            /\ \A j \in 1..Len(outcome.questions) :
                  MadeFrom(outcome.questions[j],
                           ArrayElement(completion.response, j), j)

\* fewer questions were available than requested, and they were returned
C22_Witness ==
    /\ McqReturned
    /\ completion.response \in WellFormedArrays
    /\ ArrayLength(completion.response) = 2
    /\ params.numberOfQuestions = 3
    /\ Len(outcome.questions) = 2

\* C23: whenever some model answered, generateMCQs does not throw: a response
\* that cannot be parsed as a non-empty array is replaced by placeholder
\* questions, returned with modelUsed.
C23_AnsweredNeverThrows ==
    (mpc = "done" /\ completion # NoCompletion) =>
        /\ ~outcome.threw
        /\ outcome.questions # <<>>
        /\ outcome.modelUsed = completion.modelUsed

\* ---------------------------------------------- analyzeContent, many chunks
\* what the call for chunk i gives, whenever it completes
ResultOfChunk(i) == analyzeContentChunk(chunkAnswers[i], i - 1)

\* the non-empty summaries of chunks i, i + 1, ... in chunk order
RECURSIVE SummariesFrom(_)
SummariesFrom(i) ==
    IF i > Len(chunkAnswers) THEN <<>>
    ELSE IF ResultOfChunk(i).summary = "" THEN SummariesFrom(i + 1)
    ELSE <<ResultOfChunk(i).summary>> \o SummariesFrom(i + 1)

\* the key points of chunks i, i + 1, ... in chunk order
RECURSIVE KeyPointsFrom(_)
KeyPointsFrom(i) ==
    IF i > Len(chunkAnswers) THEN <<>>
    ELSE ResultOfChunk(i).keyPoints \o KeyPointsFrom(i + 1)

\* the texts of a joined summary, separators and heading left out
TextsOf(summary) ==
    SelectSeq(summary, LAMBDA t : t \notin {" ", "This document covers: "})

\* C24: the per-chunk calls complete in any order; the results are combined
\* only after all of them have completed, and by chunk index: the title is
\* that of chunk 0 and the summaries and key points follow the chunk order,
\* whatever the completion order was.
C24_CombinedByChunkIndex ==
    apc = "done" =>
        /\ \A i \in 1..Len(chunkAnswers) : Settled(i)
        /\ analysis.title \in {ResultOfChunk(1).title, "Extracted Content"}
        /\ ResultOfChunk(1).title # "" => analysis.title = ResultOfChunk(1).title
        /\ analysis.modelUsed = ResultOfChunk(1).modelUsed
        /\ IF SummariesFrom(1) = <<>>
           THEN analysis.summary = <<"Content analyzed in multiple parts">>
           ELSE TextsOf(analysis.summary) = SummariesFrom(1)
        /\ analysis.keyPoints = sliceFirst(UniqueFrom(KeyPointsFrom(1), 1), 5)

\* three chunks with different summaries were combined after the call for
\* the last chunk completed first and the call for the first chunk last
C24_Witness ==
    /\ apc = "done"
    /\ Len(chunkAnswers) = 3
    /\ completions = <<3, 2, 1>>
    /\ Len(TextsOf(analysis.summary)) = 3
    /\ Len(analysis.keyPoints) = 5

\* ------------------------------------------------------ extraction floors
\* C25: the PDF floor is the URL floor, so that no session made from a URL
\* or from a PDF holds a text shorter than that one threshold.
C25_SingleExtractionFloor ==
    \A k \in 1..Len(contentSessions) :
        contentSessions[k].sourceType \in {"url", "pdf"} =>
            contentSessions[k].extractedContent.len >= URL_MIN_LENGTH

\* --------------------------------------------------------------- modelUsed
\* C26: the modelUsed stored on a created session (and reported with it) is
\* one of the configured model identifiers, whatever preferredModel the
\* request carried and whichever endpoint created the session.
C26_ModelUsedIsConfigured ==
    \A k \in 1..Len(contentSessions) :
        contentSessions[k].modelUsed \in Range(AVAILABLE_MODELS)

\* ---------------------------------------------------------- chunk scores
ChunkWordsOf(i) == splitWhitespace(toLowerCase(chunkList[i]))

\* the pairs of a word of chunk i and a question word that is part of it
Inclusions(i) ==
    {p \in (1..Len(ChunkWordsOf(i))) \X (1..Len(QuestionWords(questionArg))) :
        includes(ChunkWordsOf(i)[p[1]], QuestionWords(questionArg)[p[2]])}

\* C27 (as claimed): the score of a chunk is the number of its words that
\* contain at least one question word; a chunk word that contains several
\* question words, or a question word given twice, counts once.
C27_ChunkWordCountedOnce ==
    rpc # "call" =>
        \A i \in 1..Len(chunkScores) :
            chunkScores[i].score = Cardinality({p[1] : p \in Inclusions(i)})

\* C27 (amended): the score of a chunk is the number of pairs of a chunk word
\* and a question word contained in it, the question words taken as often as
\* they occur in the question.
C27_CountedPerQuestionWord ==
    rpc # "call" =>
        \A i \in 1..Len(chunkScores) :
            chunkScores[i].score = Cardinality(Inclusions(i))

\* C27 witness: a chunk was scored one of whose words contains two different
\* question words
C27_Witness ==
    /\ rpc # "call"
    /\ \E i \in 1..Len(chunkScores) :
          \E p, q \in Inclusions(i) :
              /\ p[1] = q[1]
              /\ QuestionWords(questionArg)[p[2]] # QuestionWords(questionArg)[q[2]]
              /\ chunkScores[i].score >= 2

\* ------------------------------------------------- requests per invocation
\* the attempts in which a request went out
Sent == {j \in 1..Len(attempts) : attempts[j].sent}

\* C28: within one invocation of callWithFallback the candidates are tried
\* one after another in list order; each candidate receives at most one
\* request, a candidate whose credential is missing receives none, nothing
\* is tried after the first success, and so there are never more requests
\* than candidates.
C28_AtMostOneRequestPerCandidate ==
    /\ \A j \in 1..Len(attempts) :
          /\ j <= Len(call.modelsToTry)
          /\ attempts[j].model = call.modelsToTry[j]
          /\ ApiKeyName(attempts[j].model) \notin env => ~attempts[j].sent
          /\ j < Len(attempts) => attempts[j].threw
    /\ \A m \in Range(call.modelsToTry) :
          Cardinality({j \in Sent : attempts[j].model = m}) <= 1
    /\ Cardinality(Sent) <= Len(call.modelsToTry)
    /\ call.status = "trying" => call.i = Len(attempts) + 1

\* C28 witness: the fourth candidate answered after one failed request and
\* two candidates without credential; the remaining candidates were not tried
C28_Witness ==
    /\ call.status = "returned"
    /\ Len(attempts) = 4
    /\ Len(call.modelsToTry) > 4
    /\ Cardinality(Sent) = 2
    /\ ~attempts[4].threw

\* ------------------------------------------------- messages per ask outcome
\* the stored messages that ask request i created
AddedBy(i) ==
    {k \in 1..Len(messages) :
        messages[k].id \in {reqs[i].userMessage, reqs[i].assistantMessage} \ {0}}

\* C29: the messages an ask request adds to the transcript follow from its
\* outcome: none with 400 or 404 (and with 404 no model was called), the user
\* message followed by the assistant message with 200, and the user message
\* alone with 500; no stored message is without such a request.
C29_MessagesFollowOutcome ==
    /\ \A i \in Asks :
          LET r == reqs[i]
              transcript == getMessagesBySessionId(r.sessionId)
          IN  /\ r.status \in {400, 404} => AddedBy(i) = {}
              /\ (r.status = 404 /\ r.pc = "responded") => r.call = NoCall
              /\ r.status = 200 =>
                    /\ Cardinality(AddedBy(i)) = 2
                    /\ PositionOf(transcript, r.userMessage) # 0
                    /\ PositionOf(transcript, r.userMessage)
                          < PositionOf(transcript, r.assistantMessage)
                    /\ MessageById(r.userMessage).role = "user"
                    /\ MessageById(r.assistantMessage).role = "assistant"
              /\ r.status = 500 =>
                    /\ Cardinality(AddedBy(i)) = 1
                    /\ r.assistantMessage = 0
                    /\ PositionOf(transcript, r.userMessage) # 0
                    /\ MessageById(r.userMessage).role = "user"
    /\ \A k \in 1..Len(messages) : \E i \in Asks : k \in AddedBy(i)

\* C29 witness: on one session an ask failed with 500 and left its question
\* and another ask succeeded
C29_Witness ==
    \E i, j \in Asks :
        /\ reqs[i].status = 500 /\ reqs[j].status = 200
        /\ reqs[i].sessionId = reqs[j].sessionId
        /\ Len(getMessagesBySessionId(reqs[i].sessionId)) = 3

\* ------------------------------------------------ sessions per extraction
\* the extract-content and extract-pdf requests
Extractions == {i \in Requests : reqs[i].kind \in {"url", "pdf"}}

\* the number of stored sessions with the given identifier
SessionCopies(id) ==
    Cardinality({k \in 1..Len(contentSessions) : contentSessions[k].id = id})

\* a step that changes the session store adds one session, for a request
\* whose extraction and analysis have both succeeded
StoresAfterAnalysis ==
    contentSessions' # contentSessions =>
        LET n == Len(contentSessions)
        IN  /\ Len(contentSessions') = n + 1
            /\ SubSeq(contentSessions', 1, n) = contentSessions
            /\ \E i \in Requests :
                  /\ reqs[i].created = 0
                  /\ reqs'[i].created = contentSessions'[n + 1].id
                  /\ i \in Extractions =>
                        /\ reqs[i].extractedContent.len > 0
                        /\ reqs[i].call.status = "returned"
                        /\ contentSessions'[n + 1].extractedContent
                              = reqs[i].extractedContent
                        /\ contentSessions'[n + 1].modelUsed = reqs[i].call.modelUsed

\* a step that sends the response of an extraction request leaves the store
\* alone; an error response is sent by a request that stored nothing, a
\* success response by a request that stored one session
RespondsByOutcome ==
    \A i \in Extractions :
        (reqs[i].pc # "responded" /\ i <= Len(reqs') /\ reqs'[i].pc = "responded") =>
            /\ reqs'[i].status # 200 =>
                  /\ reqs'[i].created = 0
                  /\ contentSessions' = contentSessions
            /\ reqs'[i].status = 200 =>
                  /\ reqs'[i].created # 0
                  /\ SessionCopies(reqs'[i].created) = 1
                  /\ contentSessions' = contentSessions

\* C30: a content session is stored only after both the extraction and the
\* analysis have succeeded: an extract-content or extract-pdf request that
\* ends with an error response has stored nothing, and one that ends with a
\* success response has added exactly one session.
C30_SessionOnlyAfterAnalysis == [][StoresAfterAnalysis /\ RespondsByOutcome]_vars

\* C30 witness: one extraction request was answered with 500 after its
\* analysis failed, another stored the only session and was answered 200
C30_Witness ==
    \E i, j \in Extractions :
        /\ reqs[i].pc = "responded" /\ reqs[i].status = 500
        /\ reqs[i].call.status = "thrown"
        /\ reqs[i].extractedContent.len > 0
        /\ reqs[j].status = 200
        /\ Len(contentSessions) = 1


====
